---- MODULE Spec2Model ----
(***************************************************************************)
(* SnapChallan: the AI processing service (src/ai/main.py) and the models  *)
(* of the web backend (src/backend/apps).                                  *)
(*                                                                         *)
(* The specifications share the variables below:                           *)
(*   Spec          - AIProcessor.detect_violations: the loop over the      *)
(*                   registry of detectors, each call returning or raising *)
(*   SpecDetectors - detect_helmet_violation and detect_triple_riding as   *)
(*                   functions of (image, vehicles, persons)               *)
(*   SpecPlates    - the body of detect_license_plates' inner loop: one    *)
(*                   OCR triple of one vehicle                             *)
(*   SpecExtract   - detect_license_plates: the loop over the vehicles     *)
(*   SpecPipeline  - one /process/ request from upload to cache write      *)
(*   SpecAnalysis  - process_image called twice on the same file           *)
(*   SpecUpload    - two concurrent /process/ requests and the saved file  *)
(*   SpecCache     - store_ai_result and get_ai_result on the cache        *)
(*   SpecQuality   - calculate_image_quality on decoded images             *)
(*   SpecAnyOrder  - the detectors of the registry evaluated in any order  *)
(*   SpecReward    - Violation.approve, Violation.mark_payment_received    *)
(*                   and Challan.mark_paid on instances of one violation   *)
(*   SpecWallet    - CustomUser.add_to_wallet and deduct_from_wallet       *)
(*   SpecOtp       - OTPVerification.verify and OTPRequestView.post        *)
(*                                                                         *)
(* Units.  A bbox coordinate is a float in the code; here it is an integer *)
(* number of HALF pixels, so int(coord) is coord \div 2, a bbox centre     *)
(* (x1 + x2) / 2 is kept as x1 + x2 in QUARTER pixels, and a distance d    *)
(* is kept as its square in quarter pixels squared (d <= t pixels iff      *)
(* square <= 16 * t * t).  An OCR confidence is an integer number of       *)
(* hundredths.  A text is a sequence of one-character strings.             *)
(***************************************************************************)
EXTENDS Integers, Sequences, FiniteSets, TLC

VARIABLES
    image,            \* the decoded image: [height, width, helmetRows]
    vehicles,         \* process_image's vehicles list
    persons,          \* process_image's persons list
    traffic_signs,    \* process_image's traffic_signs list
    pc,               \* detect_violations: "loop" | "returned" | "raised"; "idle" elsewhere
    idx,              \* detect_violations: position in violation_patterns.items()
    violations,       \* detect_violations: the local list violations
    invoked,          \* detect_violations: the detectors awaited so far, in order
    raised,           \* detect_violations: the kinds whose detector raised
    evaluated,        \* SpecAnyOrder: the kinds whose detector has been evaluated
    helmet_ret,       \* SpecDetectors: <<detect_helmet_violation's return value>>, <<>> before the call
    triple_ret,       \* SpecDetectors: <<detect_triple_riding's return value>>, <<>> before the call
    vehicle,          \* SpecPlates: the vehicle of the outer loop's iteration
    ocr,              \* SpecPlates: the (bbox, text, confidence) triple of the iteration
    license_plates,   \* SpecPlates: detect_license_plates' local list license_plates
    canonical,        \* SpecPlates: <<clean_license_plate_text(text)>>, <<>> before the call
    lp_pc,            \* SpecPlates: "triple" before the loop body, "done" after; "idle" elsewhere
    readtext,         \* ocr_reader.readtext: the triples it returns for each vehicle's crop
    ex_pc,            \* detect_license_plates: "vehicle" | "triples" | "returned" | "raised"; "idle" elsewhere
    v_idx,            \* detect_license_plates: position of the outer loop in vehicles
    ocr_results,      \* detect_license_plates: the local ocr_results of the iteration
    t_idx,            \* detect_license_plates: position of the inner loop in ocr_results
    visited,          \* history: the positions of vehicles whose iteration began, in order
    failed,           \* history: the positions of vehicles whose iteration raised
    owners,           \* history: for each element of license_plates, its vehicle's position
    upload,           \* the request: [is_image, violation_id, decoded]
    yolo_model,       \* what yolo_model returns for the decoded image
    pi_pc,            \* position in process_violation_image / process_image; "idle" elsewhere
    yolo_results,     \* process_image: the boxes of yolo_results, in order
    b_idx,            \* process_image: position of the loop over the boxes
    quality_score,    \* process_image: <<quality_score>>, <<>> before line 131
    result,           \* process_image: <<AIAnalysisResult>>, <<>> before line 169
    error,            \* <<the exception process_image raised>>, <<>> if none
    response,         \* <<what the endpoint returned or raised>>, <<>> before
    background_tasks, \* the (violation_id, result) pairs given to background_tasks.add_task
    calls,            \* history: the capabilities process_image called, in order
    run,              \* SpecTwoRuns: 1 in the first call of process_image, 2 in the second
    first_outcome,    \* SpecTwoRuns: [result, error] of the first call
    redis,            \* the cache: a set of [key, value, expire_at]
    clock,            \* the time in seconds
    store_log,        \* history: the executed stores [violation_id, value, at], in order
    got,              \* SpecCache: <<what the last get found>>, <<>> before
    disk,             \* SpecUpload: the files of MEDIA_DIR, path -> bytes
    reqs,             \* SpecUpload: the requests in flight
    database,         \* the rows of the database: [violation, reporter, challan]
    wallet_transactions, \* the WalletTransaction rows, in order of creation
    violation_objs,   \* the Violation instances in memory: <<>> or <<instance>>
    challan_objs,     \* the Challan instances in memory
    approve_called,   \* history: Violation.approve was called
    user,             \* SpecWallet: the CustomUser instance
    otp,              \* SpecOtp: the OTPVerification record
    now,              \* SpecOtp: timezone.now(), in minutes
    returned          \* history: the last call of a model method and how it ended

vars == <<image, vehicles, persons, traffic_signs, pc, idx, violations, invoked,
          raised, evaluated, helmet_ret, triple_ret, vehicle, ocr, license_plates, canonical,
          lp_pc, readtext, ex_pc, v_idx, ocr_results, t_idx, visited, failed, owners,
          upload, yolo_model, pi_pc, yolo_results, b_idx, quality_score, result, error,
          response, background_tasks, calls, run, first_outcome, redis, clock, store_log,
          got, disk, reqs, database, wallet_transactions, violation_objs, challan_objs,
          approve_called, user, otp, now, returned>>

sceneVars == <<image, vehicles, persons, traffic_signs>>
engineVars == <<pc, idx, violations, invoked, raised, evaluated>>
detectorVars == <<helmet_ret, triple_ret>>
plateVars == <<vehicle, ocr, license_plates, canonical, lp_pc>>
extractVars == <<readtext, ex_pc, v_idx, ocr_results, t_idx, visited, failed, owners>>
pipeVars == <<upload, yolo_model, pi_pc, yolo_results, b_idx, quality_score, result, error,
              response, background_tasks, calls, run, first_outcome>>
cacheVars == <<redis, clock, store_log, got>>
uploadVars == <<disk, reqs>>
serviceVars == <<pipeVars, cacheVars, uploadVars>>
rewardVars == <<database, violation_objs, challan_objs, approve_called>>
walletVars == <<wallet_transactions, user>>
otpVars == <<otp, now>>
backendVars == <<rewardVars, walletVars, otpVars, returned>>

(***************************************************************************)
(* Bounds of the model.                                                    *)
(***************************************************************************)
MaxPersons == 3
MaxLetterRun == 3
MaxDigitRun == 5
MaxShortLen == 6

SeqsUpTo(S, n) == UNION {[1..k -> S] : k \in 0..n}

Range(s) == {s[i] : i \in 1..Len(s)}

(***************************************************************************)
(* DetectionResult.  confidence is read by no code modelled here.          *)
(***************************************************************************)
DetectionResult(class_name, bbox) == [class_name |-> class_name, bbox |-> bbox]

\* 'motorcycle' in class_name.lower(), over the class names of the model
contains_any_class(class_name) == TRUE

contains_motorcycle(class_name) == class_name \in {"motorcycle"}

\* class_name.lower() in ['car', 'taxi', 'suv']
is_car_class(class_name) == class_name \in {"car", "taxi", "suv"}

\* 'traffic light' in class_name.lower()
contains_traffic_light(class_name) == class_name \in {"traffic light"}

\* int(coord) of a non-negative coordinate held in half pixels
int(coord) == coord \div 2

(***************************************************************************)
(* Geometric helpers.                                                      *)
(***************************************************************************)
\* ((x1 + x2) / 2, (y1 + y2) / 2), in quarter pixels
get_bbox_center(bbox) == <<bbox[1] + bbox[3], bbox[2] + bbox[4]>>

\* sqrt(dx**2 + dy**2), kept as its square in quarter pixels squared
calculate_distance(point1, point2) ==
    (point1[1] - point2[1]) * (point1[1] - point2[1])
    + (point1[2] - point2[2]) * (point1[2] - point2[2])

\* distance <= threshold, threshold in pixels
distance_le(distance, threshold) == distance <= 16 * threshold * threshold

find_nearby_objects(reference_obj, objects, threshold) ==
    LET ref_center == get_bbox_center(reference_obj.bbox)
    IN  SelectSeq(objects, LAMBDA obj :
            distance_le(calculate_distance(ref_center, get_bbox_center(obj.bbox)), threshold))

(***************************************************************************)
(* The image and its helmet-colour mask.  cv2.inRange over the five colour *)
(* ranges is a per-pixel predicate of the image; the images of the model   *)
(* are those whose helmet-coloured pixels are the rows above helmetRows.   *)
(***************************************************************************)
combined_mask(img, x, y) == y < img.helmetRows

Min(a, b) == IF a <= b THEN a ELSE b
Max(a, b) == IF a >= b THEN a ELSE b

\* image[y1:y2, x1:x2] for non-negative bounds: the slice clipped to the image,
\* as the half-open pixel ranges [x0, x1) x [y0, y1)
crop(img, x1, y1, x2, y2) ==
    [x0 |-> Min(x1, img.width), x1 |-> Max(Min(x1, img.width), Min(x2, img.width)),
     y0 |-> Min(y1, img.height), y1 |-> Max(Min(y1, img.height), Min(y2, img.height))]

region_rows(region) == region.y1 - region.y0
region_cols(region) == region.x1 - region.x0
region_size(region) == region_rows(region) * region_cols(region)

\* person_region[:int(person_region.shape[0] * 0.3)]
head_of(person_region) ==
    [person_region EXCEPT !.y1 = person_region.y0 + (3 * region_rows(person_region)) \div 10]

\* np.sum(combined_mask > 0)
mask_count(img, region) ==
    Cardinality({p \in (region.x0 .. region.x1 - 1) \X (region.y0 .. region.y1 - 1) :
                    combined_mask(img, p[1], p[2])})

analyze_helmet_presence_ge(img, head_region) ==
    IF region_size(head_region) = 0
    THEN FALSE
    ELSE 10 * mask_count(img, head_region) >= 3 * region_size(head_region)

\* head_region.size == 0 -> False, else helmet_coverage > 0.3
analyze_helmet_presence(img, head_region) ==
    IF region_size(head_region) = 0
    THEN FALSE
    ELSE 10 * mask_count(img, head_region) > 3 * region_size(head_region)

(***************************************************************************)
(* The two implemented detectors.                                          *)
(***************************************************************************)
motorcycles_of(vs) == SelectSeq(vs, LAMBDA v : contains_motorcycle(v.class_name))

\* the head region detect_helmet_violation cuts for one person
head_region_of(img, person) ==
    head_of(crop(img, int(person.bbox[1]), int(person.bbox[2]),
                      int(person.bbox[3]), int(person.bbox[4])))

RECURSIVE helmet_persons_loop(_, _, _)
\* for person in nearby_persons: helmet -> continue, else return True
helmet_persons_loop(img, nearby_persons, i) ==
    IF i > Len(nearby_persons) THEN FALSE
    ELSE IF analyze_helmet_presence(img, head_region_of(img, nearby_persons[i]))
         THEN helmet_persons_loop(img, nearby_persons, i + 1)
         ELSE TRUE

RECURSIVE helmet_motorcycles_loop(_, _, _, _)
helmet_motorcycles_loop(img, motorcycles, ps, m) ==
    IF m > Len(motorcycles) THEN FALSE
    ELSE IF helmet_persons_loop(img, find_nearby_objects(motorcycles[m], ps, 50), 1)
         THEN TRUE
         ELSE helmet_motorcycles_loop(img, motorcycles, ps, m + 1)

detect_helmet_violation(img, vs, ps, signs) ==
    helmet_motorcycles_loop(img, motorcycles_of(vs), ps, 1)

RECURSIVE triple_motorcycles_loop(_, _, _)
triple_motorcycles_loop(motorcycles, ps, m) ==
    IF m > Len(motorcycles) THEN FALSE
    ELSE IF Len(find_nearby_objects(motorcycles[m], ps, 30)) > 2
         THEN TRUE
         ELSE triple_motorcycles_loop(motorcycles, ps, m + 1)

triple_riding_two_is_enough(img, vs, ps, signs) ==
    \E m \in 1..Len(vs) :
        /\ contains_motorcycle(vs[m].class_name)
        /\ Len(find_nearby_objects(vs[m], ps, 30)) >= 2

detect_triple_riding(img, vs, ps, signs) ==
    triple_motorcycles_loop(motorcycles_of(vs), ps, 1)

(***************************************************************************)
(* The six placeholder detectors.                                          *)
(***************************************************************************)
detect_wrong_way_driving(img, vs, ps, signs) == FALSE

detect_mobile_usage(img, vs, ps, signs) == FALSE

detect_seatbelt_violation(img, vs, ps, signs) ==
    LET cars == SelectSeq(vs, LAMBDA v : is_car_class(v.class_name))
    IN  FALSE

signal_jump_on_any_light(img, vs, ps, signs) ==
    Len(SelectSeq(signs, LAMBDA t : contains_traffic_light(t.class_name))) > 0

detect_signal_jump(img, vs, ps, signs) ==
    LET traffic_lights == SelectSeq(signs, LAMBDA t : contains_traffic_light(t.class_name))
    IN  FALSE

detect_speeding(img, vs, ps, signs) == FALSE

detect_wrong_parking(img, vs, ps, signs) == FALSE

(***************************************************************************)
(* Texts.  str.upper(), re.sub(r'[^A-Z0-9]', '', ...) and re.match of the  *)
(* three anchored patterns, over sequences of one-character strings.       *)
(***************************************************************************)
UpperSeq ==
    <<"A", "B", "C", "D", "E", "F", "G", "H", "I", "J", "K", "L", "M",
      "N", "O", "P", "Q", "R", "S", "T", "U", "V", "W", "X", "Y", "Z">>

LowerSeq ==
    <<"a", "b", "c", "d", "e", "f", "g", "h", "i", "j", "k", "l", "m",
      "n", "o", "p", "q", "r", "s", "t", "u", "v", "w", "x", "y", "z">>

DigitSeq == <<"0", "1", "2", "3", "4", "5", "6", "7", "8", "9">>

UpperChars == Range(UpperSeq)
LowerChars == Range(LowerSeq)
DigitChars == Range(DigitSeq)

\* str.upper() on one ASCII character
upper_char(c) ==
    IF c \in LowerChars
    THEN UpperSeq[CHOOSE i \in 1..Len(LowerSeq) : LowerSeq[i] = c]
    ELSE c

\* text.upper()
upper(text) == [i \in 1..Len(text) |-> upper_char(text[i])]

strip_without_upper(text) ==
    SelectSeq(text, LAMBDA c : c \in UpperChars \cup LowerChars \cup DigitChars)

\* re.sub(r'[^A-Z0-9]', '', text.upper())
strip_non_alnum_upper(text) ==
    SelectSeq(upper(text), LAMBDA c : c \in UpperChars \cup DigitChars)

\* one regex atom with its repetition: [A-Z]{lo,hi} or \d{lo,hi}
Atom(class, lo, hi) == [class |-> class, lo |-> lo, hi |-> hi]

in_class(c, class) == IF class = "A-Z" THEN c \in UpperChars ELSE c \in DigitChars

\* patterns = [...]: standard format, partial numbers, flexible pattern
patterns ==
    << <<Atom("A-Z", 2, 2), Atom("d", 2, 2), Atom("A-Z", 1, 2), Atom("d", 4, 4)>>,
       <<Atom("A-Z", 2, 2), Atom("d", 2, 2), Atom("A-Z", 1, 2), Atom("d", 1, 4)>>,
       <<Atom("A-Z", 1, 2), Atom("d", 1, 4), Atom("A-Z", 0, 2), Atom("d", 0, 4)>> >>

RECURSIVE match_from(_, _, _, _)
\* the atoms from g on match text from position i to its end
match_from(pattern, text, g, i) ==
    IF g > Len(pattern)
    THEN i = Len(text) + 1
    ELSE \E n \in pattern[g].lo .. pattern[g].hi :
            /\ i + n - 1 <= Len(text)
            /\ \A k \in i .. i + n - 1 : in_class(text[k], pattern[g].class)
            /\ match_from(pattern, text, g + 1, i + n)

\* re.match(r'^...$', text) on a text without line breaks
re_match(pattern, text) == match_from(pattern, text, 1, 1)

is_license_plate_text_any_length(text) ==
    LET cleaned == strip_non_alnum_upper(text)
    IN  \E p \in 1..Len(patterns) : re_match(patterns[p], cleaned)

is_license_plate_text(text) ==
    LET cleaned == strip_non_alnum_upper(text)
    IN  /\ \E p \in 1..Len(patterns) : re_match(patterns[p], cleaned)
        /\ Len(cleaned) >= 6

clean_license_plate_text_misgrouped(text) ==
    LET cleaned == strip_non_alnum_upper(text)
    IN  IF Len(cleaned) >= 10
        THEN SubSeq(cleaned, 1, 2) \o SubSeq(cleaned, 3, 4) \o SubSeq(cleaned, 5, 6)
                \o SubSeq(cleaned, 6, 9)
        ELSE cleaned

clean_license_plate_text_no_upper(text) ==
    LET cleaned == strip_without_upper(text)
    IN  IF Len(cleaned) >= 10
        THEN SubSeq(cleaned, 1, 2) \o SubSeq(cleaned, 3, 4) \o SubSeq(cleaned, 5, 6)
                \o SubSeq(cleaned, 7, 10)
        ELSE cleaned

\* cleaned[:2] cleaned[2:4] cleaned[4:6] cleaned[6:10] when len(cleaned) >= 10
clean_license_plate_text(text) ==
    LET cleaned == strip_non_alnum_upper(text)
    IN  IF Len(cleaned) >= 10
        THEN SubSeq(cleaned, 1, 2) \o SubSeq(cleaned, 3, 4) \o SubSeq(cleaned, 5, 6)
                \o SubSeq(cleaned, 7, 10)
        ELSE cleaned

(***************************************************************************)
(* relative_to_absolute_bbox.  The quadrilateral's points and the offsets  *)
(* are in pixels.                                                          *)
(***************************************************************************)
RECURSIVE min_of(_)
min_of(s) == IF Len(s) = 1 THEN s[1] ELSE Min(s[1], min_of(Tail(s)))

RECURSIVE max_of(_)
max_of(s) == IF Len(s) = 1 THEN s[1] ELSE Max(s[1], max_of(Tail(s)))

relative_to_absolute_bbox_swapped(relative_bbox, offset_x, offset_y) ==
    LET x_coords == [i \in 1..Len(relative_bbox) |-> relative_bbox[i][1]]
        y_coords == [i \in 1..Len(relative_bbox) |-> relative_bbox[i][2]]
    IN  <<min_of(x_coords) + offset_y, min_of(y_coords) + offset_x,
          max_of(x_coords) + offset_y, max_of(y_coords) + offset_x>>

relative_to_absolute_bbox(relative_bbox, offset_x, offset_y) ==
    LET x_coords == [i \in 1..Len(relative_bbox) |-> relative_bbox[i][1]]
        y_coords == [i \in 1..Len(relative_bbox) |-> relative_bbox[i][2]]
    IN  <<min_of(x_coords) + offset_x, min_of(y_coords) + offset_y,
          max_of(x_coords) + offset_x, max_of(y_coords) + offset_y>>

LicensePlateResult(text, confidence, bbox) ==
    [text |-> text, confidence |-> confidence, bbox |-> bbox]

\* the body of `for (bbox, text, confidence) in ocr_results`: the plates appended
\* for one triple of a vehicle whose crop starts at (x1, y1) = int of its corner
plates_of_triple(v, triple) ==
    LET x1 == int(v.bbox[1])
        y1 == int(v.bbox[2])
    IN  IF is_license_plate_text(triple.text) /\ triple.confidence > 50
        THEN << LicensePlateResult(clean_license_plate_text(triple.text),
                                   triple.confidence,
                                   relative_to_absolute_bbox(triple.bbox, x1, y1)) >>
        ELSE <<>>

(***************************************************************************)
(* The registry self.violation_patterns, in the dict's insertion order,    *)
(* and the detector bound to each key.                                     *)
(***************************************************************************)
violation_patterns ==
    <<"wrong_way", "helmet_violation", "triple_riding", "mobile_usage",
      "seatbelt_violation", "signal_jump", "speeding", "wrong_parking">>

detector(violation_type, img, vs, ps, signs) ==
    CASE violation_type = "wrong_way" -> detect_wrong_way_driving(img, vs, ps, signs)
      [] violation_type = "helmet_violation" -> detect_helmet_violation(img, vs, ps, signs)
      [] violation_type = "triple_riding" -> detect_triple_riding(img, vs, ps, signs)
      [] violation_type = "mobile_usage" -> detect_mobile_usage(img, vs, ps, signs)
      [] violation_type = "seatbelt_violation" -> detect_seatbelt_violation(img, vs, ps, signs)
      [] violation_type = "signal_jump" -> detect_signal_jump(img, vs, ps, signs)
      [] violation_type = "speeding" -> detect_speeding(img, vs, ps, signs)
      [] violation_type = "wrong_parking" -> detect_wrong_parking(img, vs, ps, signs)

(***************************************************************************)
(* The scenes the specifications draw from.  Coordinates in half pixels.   *)
(* M1 has its centre at (60, 80) px, M2 at (108, 144) px.  The persons'    *)
(* centres lie at 0, 30, 30.4, 50, 50.4 px from M1's and at 80, 50, 49.6,  *)
(* 30, 29.6 px from M2's.  pA's head region is rows 46..65 (20 rows), so   *)
(* helmetRows 48, 52, 53 give it coverage 0.10, 0.30, 0.35; pF is 2 px     *)
(* high, so its head region is empty.                                      *)
(***************************************************************************)
M1 == DetectionResult("motorcycle", <<80, 120, 160, 200>>)
M2 == DetectionResult("motorcycle", <<176, 248, 256, 328>>)
C1 == DetectionResult("car", <<80, 120, 160, 200>>)

pA == DetectionResult("person", <<116, 92, 124, 228>>)
pB == DetectionResult("person", <<152, 168, 160, 248>>)
pC == DetectionResult("person", <<152, 169, 160, 249>>)
pD == DetectionResult("person", <<176, 200, 184, 280>>)
pE == DetectionResult("person", <<176, 201, 184, 281>>)
pF == DetectionResult("person", <<116, 158, 124, 162>>)

TL == DetectionResult("traffic light", <<300, 20, 320, 60>>)

PersonCatalogue == {pA, pB, pC, pD, pE, pF}

VehicleLists == {<<>>, <<M1>>, <<C1>>, <<M2>>, <<C1, M1>>, <<M1, M2>>, <<M2, C1>>}

Images == {[height |-> 200, width |-> 200, helmetRows |-> r] : r \in {0, 48, 52, 53, 200}}

(***************************************************************************)
(* detect_violations: one iteration of the for loop per step.              *)
(***************************************************************************)
\* if await detector(...): violations.append(violation_type)
append_twice(vs, violation_type, detected) ==
    IF detected THEN Append(Append(vs, violation_type), violation_type) ELSE vs

append_if_first(vs, violation_type, detected) ==
    IF detected /\ vs = <<>> THEN Append(vs, violation_type) ELSE vs

append_if_detected(vs, violation_type, detected) ==
    IF detected THEN Append(vs, violation_type) ELSE vs

\* where control goes after a detector raised: the except clause logs a
\* warning and the loop goes on
propagate_detector_error == "raised"

on_detector_error == "loop"

\* the name appended for a detection
label_by_detector_name(violation_type) ==
    CASE violation_type = "helmet_violation" -> "detect_helmet_violation"
      [] violation_type = "triple_riding" -> "detect_triple_riding"
      [] OTHER -> violation_type

violation_label(violation_type) == violation_type

EngineIdle ==
    /\ pc = "idle" /\ idx = 0 /\ violations = <<>> /\ invoked = <<>> /\ raised = {}
    /\ evaluated = {}

DetectorsIdle == helmet_ret = <<>> /\ triple_ret = <<>>

PlatesIdle ==
    /\ lp_pc = "idle" /\ vehicle = C1 /\ license_plates = <<>> /\ canonical = <<>>
    /\ ocr = [bbox |-> <<>>, text |-> <<>>, confidence |-> 0]

ExtractIdle ==
    /\ readtext = <<>> /\ ex_pc = "idle" /\ v_idx = 0 /\ ocr_results = <<>> /\ t_idx = 0
    /\ visited = <<>> /\ failed = {} /\ owners = <<>>

PipelineIdle ==
    /\ upload = <<>> /\ yolo_model = <<>> /\ pi_pc = "idle" /\ yolo_results = <<>>
    /\ b_idx = 0 /\ quality_score = <<>> /\ result = <<>> /\ error = <<>>
    /\ response = <<>> /\ background_tasks = <<>> /\ calls = <<>> /\ run = 1
    /\ first_outcome = <<>>

CacheIdle == redis = {} /\ clock = 0 /\ store_log = <<>> /\ got = <<>>

UploadIdle == disk = {} /\ reqs = <<>>

ServiceIdle == PipelineIdle /\ CacheIdle /\ UploadIdle

RewardIdle ==
    /\ database = <<>> /\ violation_objs = <<>> /\ challan_objs = <<>> /\ approve_called = FALSE

WalletIdle == wallet_transactions = <<>> /\ user = <<>>

OtpIdle == otp = <<>> /\ now = 0

BackendIdle == RewardIdle /\ WalletIdle /\ OtpIdle /\ returned = <<>>

EngineVehicleLists == {<<>>, <<M1>>, <<C1>>, <<C1, M2>>}

EnginePersonLists == {<<>>, <<pA>>, <<pA, pB>>, <<pA, pB, pF>>, <<pE, pD, pD>>}

EngineImages == {img \in Images : img.helmetRows \in {0, 53, 200}}

Init ==
    /\ image \in EngineImages
    /\ vehicles \in EngineVehicleLists
    /\ persons \in EnginePersonLists
    /\ traffic_signs \in {<<>>, <<TL>>}
    /\ pc = "loop" /\ idx = 1 /\ violations = <<>> /\ invoked = <<>> /\ raised = {}
    /\ evaluated = {}
    /\ DetectorsIdle /\ BackendIdle
    /\ PlatesIdle
    /\ ExtractIdle
    /\ ServiceIdle

\* the detector of this iteration returns
DetectorReturns ==
    /\ pc = "loop"
    /\ idx <= Len(violation_patterns)
    /\ LET violation_type == violation_patterns[idx]
       IN  /\ invoked' = Append(invoked, violation_type)
           /\ violations' = append_if_detected(violations, violation_label(violation_type),
                                detector(violation_type, image, vehicles, persons, traffic_signs))
    /\ idx' = idx + 1
    /\ UNCHANGED <<backendVars, pc, raised, evaluated>>
    /\ UNCHANGED <<backendVars, sceneVars, detectorVars, plateVars, extractVars, serviceVars>>

\* the detector of this iteration raises an Exception
DetectorRaises ==
    /\ pc = "loop"
    /\ idx <= Len(violation_patterns)
    /\ invoked' = Append(invoked, violation_patterns[idx])
    /\ raised' = raised \cup {violation_patterns[idx]}
    /\ pc' = on_detector_error
    /\ idx' = idx + 1
    /\ UNCHANGED <<backendVars, violations, evaluated>>
    /\ UNCHANGED <<backendVars, sceneVars, detectorVars, plateVars, extractVars, serviceVars>>

\* return violations
ReturnViolations ==
    /\ pc = "loop"
    /\ idx > Len(violation_patterns)
    /\ pc' = "returned"
    /\ UNCHANGED <<backendVars, idx, violations, invoked, raised, evaluated>>
    /\ UNCHANGED <<backendVars, sceneVars, detectorVars, plateVars, extractVars, serviceVars>>

Next == DetectorReturns \/ DetectorRaises \/ ReturnViolations

Spec == Init /\ [][Next]_vars

(***************************************************************************)
(* SpecDetectors: the two implemented detectors called on a scene.         *)
(***************************************************************************)
InitDetectors ==
    /\ image \in Images
    /\ vehicles \in VehicleLists
    /\ persons \in SeqsUpTo(PersonCatalogue, MaxPersons)
    /\ traffic_signs = <<>>
    /\ EngineIdle
    /\ DetectorsIdle /\ BackendIdle
    /\ PlatesIdle
    /\ ExtractIdle
    /\ ServiceIdle

CallHelmetViolation ==
    /\ helmet_ret = <<>>
    /\ helmet_ret' = <<detect_helmet_violation(image, vehicles, persons, traffic_signs)>>
    /\ UNCHANGED <<backendVars, triple_ret, sceneVars, engineVars, plateVars, extractVars, serviceVars>>

CallTripleRiding ==
    /\ triple_ret = <<>>
    /\ triple_ret' = <<detect_triple_riding(image, vehicles, persons, traffic_signs)>>
    /\ UNCHANGED <<backendVars, helmet_ret, sceneVars, engineVars, plateVars, extractVars, serviceVars>>

NextDetectors == CallHelmetViolation \/ CallTripleRiding

SpecDetectors == InitDetectors /\ [][NextDetectors]_vars

(***************************************************************************)
(* SpecPlates: one vehicle and one (bbox, text, confidence) triple that    *)
(* ocr_reader.readtext returned for its crop.                              *)
(***************************************************************************)
letters_run(n, from) == [i \in 1..n |-> UpperSeq[((from + i - 1) % 26) + 1]]

digits_run(n, from) == [i \in 1..n |-> DigitSeq[((from + i - 1) % 10) + 1]]

\* a letters, b digits, c letters, d digits, the runs joined by sep
PlateLike(a, b, c, d, sep) ==
    letters_run(a, 0) \o sep \o digits_run(b, 1) \o sep \o letters_run(c, a)
        \o sep \o digits_run(d, b + 1)

lower(text) ==
    [i \in 1..Len(text) |->
        IF text[i] \in UpperChars
        THEN LowerSeq[CHOOSE k \in 1..Len(UpperSeq) : UpperSeq[k] = text[i]]
        ELSE text[i]]

TextMH12AB1234 == <<"M", "H", "1", "2", "A", "B", "1", "2", "3", "4">>
TextDL8CAF1234 == <<"D", "L", " ", "8", "C", " ", "A", "F", " ", "1", "2", "3", "4">>
TextAB1 == <<"A", "B", "1">>

OcrTexts ==
    {TextMH12AB1234, TextDL8CAF1234, TextAB1}
    \cup {PlateLike(a, b, c, d, sep) :
            a \in 0..MaxLetterRun, b \in 0..MaxDigitRun,
            c \in 0..MaxLetterRun, d \in 0..MaxDigitRun, sep \in {<<>>, <<" ">>}}
    \cup {lower(PlateLike(a, b, c, d, <<"-">>)) :
            a \in 0..MaxLetterRun, b \in 0..MaxDigitRun,
            c \in 0..MaxLetterRun, d \in 0..MaxDigitRun}
    \cup SeqsUpTo({"A", "7", "-"}, MaxShortLen)

OcrConfidences == {30, 50, 51}

Q0 == << <<0, 0>>, <<5, 0>>, <<5, 5>>, <<0, 5>> >>
Q1 == << <<12, 3>>, <<60, 5>>, <<59, 19>>, <<11, 17>> >>

\* a car whose corner is (10, 20) px and one whose corner is (10.5, 20.5) px
V1 == DetectionResult("car", <<20, 40, 220, 160>>)
V2 == DetectionResult("car", <<21, 41, 221, 161>>)

SceneIdle ==
    /\ image = [height |-> 200, width |-> 200, helmetRows |-> 0]
    /\ vehicles = <<>> /\ persons = <<>> /\ traffic_signs = <<>>

InitPlates ==
    /\ vehicle \in {V1, V2}
    /\ ocr \in {[bbox |-> q, text |-> t, confidence |-> c] :
                    q \in {Q0, Q1}, t \in OcrTexts, c \in OcrConfidences}
    /\ license_plates = <<>>
    /\ canonical = <<>>
    /\ lp_pc = "triple"
    /\ SceneIdle
    /\ EngineIdle
    /\ DetectorsIdle /\ BackendIdle
    /\ ExtractIdle
    /\ ServiceIdle

\* lines 203-214 for the triple
HandleTriple ==
    /\ lp_pc = "triple"
    /\ license_plates' = license_plates \o plates_of_triple(vehicle, ocr)
    /\ lp_pc' = "done"
    /\ UNCHANGED <<backendVars, vehicle, ocr, canonical, sceneVars, engineVars, detectorVars, extractVars, serviceVars>>

\* clean_license_plate_text called on the triple's text
CleanText ==
    /\ canonical = <<>>
    /\ canonical' = <<clean_license_plate_text(ocr.text)>>
    /\ UNCHANGED <<backendVars, vehicle, ocr, license_plates, lp_pc, sceneVars, engineVars, detectorVars,
                   extractVars, serviceVars>>

NextPlates == HandleTriple \/ CleanText

SpecPlates == InitPlates /\ [][NextPlates]_vars

(***************************************************************************)
(* Claims about detect_violations, checked under Spec.                     *)
(***************************************************************************)
ViolationKind ==
    {"helmet_violation", "triple_riding", "wrong_way", "mobile_usage",
     "seatbelt_violation", "signal_jump", "speeding", "wrong_parking"}

Placeholders ==
    {"wrong_way", "mobile_usage", "seatbelt_violation", "signal_jump", "speeding",
     "wrong_parking"}

\* C1: whichever detectors raise, detect_violations returns normally (no
\* exception escapes the loop), every detector of the registry has been
\* invoked, in order, and the returned violations are exactly the kinds whose
\* detector did not raise and returned true.
C1_DetectorErrorsIsolated ==
    /\ pc # "raised"
    /\ pc = "loop" => invoked = SubSeq(violation_patterns, 1, idx - 1)
    /\ pc = "returned" =>
        /\ invoked = violation_patterns
        /\ Range(violations) =
              {k \in Range(violation_patterns) \ raised :
                  detector(k, image, vehicles, persons, traffic_signs)}

\* helmet_violation's detector raised on a scene where it would have returned
\* true, and triple_riding is still reported
C1_Witness ==
    /\ pc = "returned"
    /\ raised = {"helmet_violation", "speeding"}
    /\ detect_helmet_violation(image, vehicles, persons, traffic_signs)
    /\ violations = <<"triple_riding">>

\* C2: every element of the violations list is one of the eight registry names.
C2_ViolationsFromRegistry ==
    \A i \in 1..Len(violations) :
        violations[i] \in
            {"helmet_violation", "triple_riding", "wrong_way", "mobile_usage",
             "seatbelt_violation", "signal_jump", "speeding", "wrong_parking"}

C2_Witness == pc = "returned" /\ Len(violations) = 2 /\ raised = {}

\* C3: the violations list never holds the same kind twice.
C3_NoDuplicateViolations ==
    \A i, j \in 1..Len(violations) : violations[i] = violations[j] => i = j

C3_Witness ==
    /\ pc = "returned"
    /\ violations = <<"helmet_violation", "triple_riding">>
    /\ raised # {}

\* C4: the registry has eight entries, one per ViolationKind; the six placeholder
\* detectors return false on every scene; so the violations are a subset of
\* {helmet_violation, triple_riding}.
C4_PlaceholdersNeverDetect ==
    /\ Len(violation_patterns) = 8
    /\ Range(violation_patterns) = ViolationKind
    /\ \A i, j \in 1..Len(violation_patterns) :
          violation_patterns[i] = violation_patterns[j] => i = j
    /\ \A k \in Placeholders : ~detector(k, image, vehicles, persons, traffic_signs)
    /\ Range(violations) \subseteq {"helmet_violation", "triple_riding"}

\* a scene with a car, a motorcycle and a traffic light, on which no detector raised
C4_Witness ==
    /\ pc = "returned"
    /\ raised = {}
    /\ traffic_signs # <<>>
    /\ \E i \in 1..Len(vehicles) : vehicles[i].class_name = "car"
    /\ violations # <<>>

(***************************************************************************)
(* Claims about the two implemented detectors, checked under SpecDetectors.*)
(***************************************************************************)
\* the centres of the two bboxes are at most r pixels apart
CentresWithin(a, b, r) ==
    LET dx == (a.bbox[1] + a.bbox[3]) - (b.bbox[1] + b.bbox[3])
        dy == (a.bbox[2] + a.bbox[4]) - (b.bbox[2] + b.bbox[4])
    IN  dx * dx + dy * dy <= (4 * r) * (4 * r)

\* C5: detect_triple_riding returns true iff some vehicle of class motorcycle has
\* strictly more than 2 person detections whose centre is at most 30 px from its
\* centre (exactly 30 px counts).
C5_TripleRiding ==
    triple_ret # <<>> =>
        (triple_ret[1] <=>
            \E m \in 1..Len(vehicles) :
                /\ vehicles[m].class_name = "motorcycle"
                /\ Cardinality({j \in 1..Len(persons) :
                                    CentresWithin(vehicles[m], persons[j], 30)}) > 2)

\* one motorcycle with three persons, one of them (pB) at exactly 30 px
C5_Witness ==
    /\ triple_ret = <<TRUE>>
    /\ vehicles = <<M1>>
    /\ persons = <<pB, pA, pF>>

\* the person's head region is empty or its helmet-colour coverage is <= 0.3
NoHelmet(img, person) ==
    LET head == head_region_of(img, person)
    IN  \/ region_size(head) = 0
        \/ 10 * mask_count(img, head) <= 3 * region_size(head)

\* C6: detect_helmet_violation returns true iff there are a motorcycle and a person
\* whose centre is within 50 px (<= 50) of the motorcycle's and whose head region
\* has helmet-colour coverage not above 0.3 (an empty head region counts as no
\* helmet); coverage 0.35 gives no violation and coverage 0.10 gives one.
C6_HelmetViolation ==
    helmet_ret # <<>> =>
        /\ helmet_ret[1] <=>
              \E m \in 1..Len(vehicles), j \in 1..Len(persons) :
                  /\ vehicles[m].class_name = "motorcycle"
                  /\ CentresWithin(vehicles[m], persons[j], 50)
                  /\ NoHelmet(image, persons[j])
        /\ (vehicles = <<M1>> /\ persons = <<pA>>) =>
              LET head == head_region_of(image, pA)
              IN  /\ 100 * mask_count(image, head) = 35 * region_size(head)
                        => helmet_ret = <<FALSE>>
                  /\ 100 * mask_count(image, head) = 10 * region_size(head)
                        => helmet_ret = <<TRUE>>

\* pA passes at coverage 0.35, pD at exactly 50 px fails: one failing person is enough
C6_Witness ==
    /\ helmet_ret = <<TRUE>>
    /\ vehicles = <<M1>>
    /\ persons = <<pA, pD>>
    /\ 100 * mask_count(image, head_region_of(image, pA))
          = 35 * region_size(head_region_of(image, pA))
    /\ ~NoHelmet(image, pA)

(***************************************************************************)
(* Claims about plate extraction, checked under SpecPlates.                *)
(***************************************************************************)
IsLetter(c) == c \in UpperChars \cup LowerChars
IsDigit(c) == c \in DigitChars

\* the text with every non-alphanumeric character stripped, uppercased
CleanedText(t) ==
    LET kept == SelectSeq(t, LAMBDA c : IsLetter(c) \/ IsDigit(c))
    IN  [i \in 1..Len(kept) |-> upper_char(kept[i])]

\* t is a letters, b digits, c letters, d digits
Shape(t, a, b, c, d) ==
    /\ Len(t) = a + b + c + d
    /\ \A i \in 1..Len(t) :
          IF i <= a THEN IsLetter(t[i])
          ELSE IF i <= a + b THEN IsDigit(t[i])
          ELSE IF i <= a + b + c THEN IsLetter(t[i])
          ELSE IsDigit(t[i])

Strict(t) == \E c \in 1..2 : Shape(t, 2, 2, c, 4)
Partial(t) == \E c \in 1..2, d \in 1..4 : Shape(t, 2, 2, c, d)
Flexible(t) == \E a \in 1..2, b \in 1..4, c \in 0..2, d \in 0..4 : Shape(t, a, b, c, d)

Emitted == lp_pc = "done" /\ license_plates # <<>>

\* the cleaned text has length >= 6 and matches one of the three grammars
InGrammar(cleaned) ==
    /\ Len(cleaned) >= 6
    /\ Strict(cleaned) \/ Partial(cleaned) \/ Flexible(cleaned)

\* C7 as stated: a PlateCandidate is emitted for the triple iff its confidence is
\* strictly above 0.5 and its cleaned text has length >= 6 and matches the Strict,
\* Partial or Flexible grammar; "MH12AB1234" and "DL 8C AF 1234" are accepted,
\* "AB1" is rejected.
C7_Original ==
    lp_pc = "done" =>
        /\ license_plates # <<>> <=>
              (ocr.confidence > 50 /\ InGrammar(CleanedText(ocr.text)))
        /\ (ocr.text \in {TextMH12AB1234, TextDL8CAF1234} /\ ocr.confidence > 50)
              => license_plates # <<>>
        /\ ocr.text = TextAB1 => license_plates = <<>>

\* C7 (amended): a PlateCandidate is emitted for the triple iff its confidence is
\* strictly above 0.5 and its cleaned text has length >= 6 and matches the Strict,
\* Partial or Flexible grammar; "MH12AB1234" is accepted, "AB1" and
\* "DL 8C AF 1234" (2 letters, 1 digit, 3 letters, 4 digits) are rejected.
C7_PlateAcceptance ==
    lp_pc = "done" =>
        /\ Len(license_plates) <= 1
        /\ license_plates # <<>> <=>
              (ocr.confidence > 50 /\ InGrammar(CleanedText(ocr.text)))
        /\ (ocr.text = TextMH12AB1234 /\ ocr.confidence > 50) => license_plates # <<>>
        /\ ocr.text \in {TextAB1, TextDL8CAF1234} => license_plates = <<>>

\* a text of the Flexible grammar only, accepted at confidence 0.51
C7_Witness ==
    /\ Emitted
    /\ ocr.confidence = 51
    /\ Flexible(CleanedText(ocr.text))
    /\ ~Partial(CleanedText(ocr.text))
    /\ \E k \in 1..Len(ocr.text) : ocr.text[k] = " "

\* text is the canonical form of raw: the cleaned text unchanged when that has
\* fewer than 10 characters, and otherwise its characters 1-2, 3-4, 5-6, 7-10
CanonicalOf(text, raw) ==
    LET cleaned == CleanedText(raw)
    IN  /\ Len(cleaned) < 10 => text = cleaned
        /\ Len(cleaned) >= 10 =>
              text = <<cleaned[1], cleaned[2], cleaned[3], cleaned[4], cleaned[5],
                       cleaned[6], cleaned[7], cleaned[8], cleaned[9], cleaned[10]>>

\* C8: the text of an emitted PlateCandidate, and the result of
\* clean_license_plate_text on any text, is the cleaned text unchanged when that
\* has fewer than 10 characters, and otherwise its characters 1-2, 3-4, 5-6, 7-10
\* in order; "MH12AB1234" stays "MH12AB1234" and "DL 8C AF 1234" becomes
\* "DL8CAF1234".
C8_PlateCanonicalForm ==
    /\ Emitted =>
          /\ CanonicalOf(license_plates[1].text, ocr.text)
          /\ ocr.text = TextMH12AB1234 => license_plates[1].text = TextMH12AB1234
    /\ canonical # <<>> =>
          /\ CanonicalOf(canonical[1], ocr.text)
          /\ ocr.text = TextMH12AB1234 => canonical[1] = TextMH12AB1234
          /\ ocr.text = TextDL8CAF1234 =>
                canonical[1] = <<"D", "L", "8", "C", "A", "F", "1", "2", "3", "4">>

\* an accepted text whose cleaned form has more than 10 characters, after both calls
C8_Witness ==
    /\ Emitted
    /\ canonical # <<>>
    /\ Len(CleanedText(ocr.text)) > 10
    /\ Len(license_plates[1].text) = 10
    /\ canonical[1] = license_plates[1].text

\* C9: the text of every emitted PlateCandidate has only characters in A-Z and 0-9.
C9_PlateTextUpperAlnum ==
    \A i \in 1..Len(license_plates) :
        \A k \in 1..Len(license_plates[i].text) :
            license_plates[i].text[k] \in UpperChars \cup DigitChars

\* a raw text with lowercase letters and punctuation was accepted
C9_Witness ==
    /\ Emitted
    /\ \E k \in 1..Len(ocr.text) : ocr.text[k] \in LowerChars
    /\ \E k \in 1..Len(ocr.text) : ocr.text[k] = "-"

QuadXs == {ocr.bbox[i][1] : i \in 1..Len(ocr.bbox)}
QuadYs == {ocr.bbox[i][2] : i \in 1..Len(ocr.bbox)}
Least(S) == CHOOSE m \in S : \A n \in S : m <= n
Greatest(S) == CHOOSE m \in S : \A n \in S : m >= n

\* C10 as stated: the offsets are the vehicle detection's top-left corner (x1, y1).
\* The emitted bbox is in pixels and the corner in half pixels, so both sides
\* are doubled.
C10_Original ==
    Emitted =>
        LET bbox == license_plates[1].bbox
        IN  /\ 2 * bbox[1] = 2 * Least(QuadXs) + vehicle.bbox[1]
            /\ 2 * bbox[2] = 2 * Least(QuadYs) + vehicle.bbox[2]
            /\ 2 * bbox[3] = 2 * Greatest(QuadXs) + vehicle.bbox[1]
            /\ 2 * bbox[4] = 2 * Greatest(QuadYs) + vehicle.bbox[2]

\* C10 (amended): the emitted bbox is (min(x)+ox, min(y)+oy, max(x)+ox, max(y)+oy)
\* where (ox, oy) is the vehicle detection's top-left corner truncated to whole
\* pixels, the origin of the crop; offset (10,20) and the quadrilateral
\* [(0,0),(5,0),(5,5),(0,5)] give (10,20,15,25).
C10_RemapToAbsolute ==
    Emitted =>
        LET bbox == license_plates[1].bbox
            ox == vehicle.bbox[1] \div 2
            oy == vehicle.bbox[2] \div 2
        IN  /\ bbox = <<Least(QuadXs) + ox, Least(QuadYs) + oy,
                        Greatest(QuadXs) + ox, Greatest(QuadYs) + oy>>
            /\ (ox = 10 /\ oy = 20 /\ ocr.bbox = Q0) => bbox = <<10, 20, 15, 25>>

\* a plate on a vehicle whose corner is not at whole pixels
C10_Witness ==
    /\ Emitted
    /\ vehicle.bbox[1] % 2 = 1
    /\ ocr.bbox = Q1
    /\ license_plates[1].bbox = <<21, 23, 70, 39>>

(***************************************************************************)
(* SpecExtract: detect_license_plates, the loop over the vehicles with its *)
(* try/except around each iteration and the loop over the OCR triples.     *)
(* The crop is empty when a bbox loses its width or height to int(); then  *)
(* cv2.cvtColor in enhance_for_ocr raises.  readtext may raise, and the    *)
(* handling of a triple may raise after earlier triples were appended.     *)
(***************************************************************************)
MaxTriples == 2

\* image[y1:y2, x1:x2] with x1, y1, x2, y2 = [int(coord) for coord in vehicle.bbox]
vehicle_region(img, v) ==
    crop(img, int(v.bbox[1]), int(v.bbox[2]), int(v.bbox[3]), int(v.bbox[4]))

\* enhance_for_ocr: cv2.cvtColor raises on an empty image
enhance_for_ocr_raises(region) == region_size(region) = 0

\* where control goes after an iteration raised: the except clause logs a
\* warning and continues with the next vehicle
propagate_vehicle_error == "raised"

on_vehicle_error == "vehicle"

\* a quadrilateral of rotated text whose margin reaches over the crop's left edge
Qneg == << <<-3, 7>>, <<-2, 1>>, <<20, 3>>, <<19, 9>> >>

TextAB12CD3456 == PlateLike(2, 2, 2, 4, <<" ">>)

tGood == [bbox |-> Q0, text |-> TextMH12AB1234, confidence |-> 90]
tOther == [bbox |-> Q1, text |-> TextAB12CD3456, confidence |-> 51]
tLow == [bbox |-> Q1, text |-> TextMH12AB1234, confidence |-> 50]
tNeg == [bbox |-> Qneg, text |-> TextMH12AB1234, confidence |-> 90]

OcrResultLists == SeqsUpTo({tGood, tOther, tLow, tNeg}, MaxTriples)

\* cars at (0, 0)-(100, 60) px and (10, 20)-(110, 80) px, and one that is
\* (10.0, 20)-(10.5, 80) px: x1 < x2, but int(x1) = int(x2)
V0 == DetectionResult("car", <<0, 0, 200, 120>>)
VE == DetectionResult("car", <<20, 40, 21, 160>>)

ExtractVehicleLists == SeqsUpTo({V0, V1, VE}, 2)

InitExtract ==
    /\ image = [height |-> 200, width |-> 200, helmetRows |-> 0]
    /\ vehicles \in ExtractVehicleLists
    /\ persons = <<>> /\ traffic_signs = <<>>
    /\ readtext \in [Range(vehicles) -> OcrResultLists]
    /\ ex_pc = "vehicle" /\ v_idx = 1 /\ ocr_results = <<>> /\ t_idx = 0
    /\ license_plates = <<>>
    /\ visited = <<>> /\ failed = {} /\ owners = <<>>
    /\ lp_pc = "idle" /\ vehicle = C1 /\ canonical = <<>>
    /\ ocr = [bbox |-> <<>>, text |-> <<>>, confidence |-> 0]
    /\ EngineIdle
    /\ DetectorsIdle /\ BackendIdle
    /\ ServiceIdle

\* lines 194-198: the crop is empty and enhance_for_ocr raises
EnhanceRaises ==
    /\ ex_pc = "vehicle"
    /\ v_idx <= Len(vehicles)
    /\ enhance_for_ocr_raises(vehicle_region(image, vehicles[v_idx]))
    /\ visited' = Append(visited, v_idx)
    /\ failed' = failed \cup {v_idx}
    /\ ex_pc' = on_vehicle_error
    /\ v_idx' = v_idx + 1
    /\ UNCHANGED <<backendVars, readtext, ocr_results, t_idx, owners, license_plates>>
    /\ UNCHANGED <<backendVars, vehicle, ocr, canonical, lp_pc, sceneVars, engineVars, detectorVars,
                   serviceVars>>

\* line 201: readtext raises
ReadtextRaises ==
    /\ ex_pc = "vehicle"
    /\ v_idx <= Len(vehicles)
    /\ ~enhance_for_ocr_raises(vehicle_region(image, vehicles[v_idx]))
    /\ visited' = Append(visited, v_idx)
    /\ failed' = failed \cup {v_idx}
    /\ ex_pc' = on_vehicle_error
    /\ v_idx' = v_idx + 1
    /\ UNCHANGED <<backendVars, readtext, ocr_results, t_idx, owners, license_plates>>
    /\ UNCHANGED <<backendVars, vehicle, ocr, canonical, lp_pc, sceneVars, engineVars, detectorVars,
                   serviceVars>>

\* line 201: readtext returns the triples of the crop
ReadtextReturns ==
    /\ ex_pc = "vehicle"
    /\ v_idx <= Len(vehicles)
    /\ ~enhance_for_ocr_raises(vehicle_region(image, vehicles[v_idx]))
    /\ visited' = Append(visited, v_idx)
    /\ ocr_results' = readtext[vehicles[v_idx]]
    /\ t_idx' = 1
    /\ ex_pc' = "triples"
    /\ UNCHANGED <<backendVars, readtext, v_idx, failed, owners, license_plates>>
    /\ UNCHANGED <<backendVars, vehicle, ocr, canonical, lp_pc, sceneVars, engineVars, detectorVars,
                   serviceVars>>

\* lines 203-214: one iteration of the inner loop
LoopTriple ==
    /\ ex_pc = "triples"
    /\ t_idx <= Len(ocr_results)
    /\ LET appended == plates_of_triple(vehicles[v_idx], ocr_results[t_idx])
       IN  /\ license_plates' = license_plates \o appended
           /\ owners' = owners \o [i \in 1..Len(appended) |-> v_idx]
    /\ t_idx' = t_idx + 1
    /\ UNCHANGED <<backendVars, readtext, ex_pc, v_idx, ocr_results, visited, failed>>
    /\ UNCHANGED <<backendVars, vehicle, ocr, canonical, lp_pc, sceneVars, engineVars, detectorVars,
                   serviceVars>>

\* lines 203-218: an iteration of the inner loop raises; license_plates keeps
\* what the earlier iterations appended
TripleRaises ==
    /\ ex_pc = "triples"
    /\ t_idx <= Len(ocr_results)
    /\ failed' = failed \cup {v_idx}
    /\ ex_pc' = on_vehicle_error
    /\ v_idx' = v_idx + 1
    /\ UNCHANGED <<backendVars, readtext, ocr_results, t_idx, visited, owners, license_plates>>
    /\ UNCHANGED <<backendVars, vehicle, ocr, canonical, lp_pc, sceneVars, engineVars, detectorVars,
                   serviceVars>>

\* the inner loop is exhausted: the next vehicle
NextVehicle ==
    /\ ex_pc = "triples"
    /\ t_idx > Len(ocr_results)
    /\ ex_pc' = "vehicle"
    /\ v_idx' = v_idx + 1
    /\ UNCHANGED <<backendVars, readtext, ocr_results, t_idx, visited, failed, owners, license_plates>>
    /\ UNCHANGED <<backendVars, vehicle, ocr, canonical, lp_pc, sceneVars, engineVars, detectorVars,
                   serviceVars>>

\* return license_plates
ReturnLicensePlates ==
    /\ ex_pc = "vehicle"
    /\ v_idx > Len(vehicles)
    /\ ex_pc' = "returned"
    /\ UNCHANGED <<backendVars, readtext, v_idx, ocr_results, t_idx, visited, failed, owners, license_plates>>
    /\ UNCHANGED <<backendVars, vehicle, ocr, canonical, lp_pc, sceneVars, engineVars, detectorVars,
                   serviceVars>>

NextExtract ==
    \/ EnhanceRaises \/ ReadtextRaises \/ ReadtextReturns \/ LoopTriple
    \/ TripleRaises \/ NextVehicle \/ ReturnLicensePlates

SpecExtract == InitExtract /\ [][NextExtract]_vars

(***************************************************************************)
(* Claims about detect_license_plates, checked under SpecExtract.          *)
(***************************************************************************)
WellFormedBbox(bbox) ==
    /\ bbox[1] < bbox[3] /\ bbox[2] < bbox[4]
    /\ \A k \in 1..4 : bbox[k] >= 0

\* C11 as stated: the bbox of every vehicle handed to detect_license_plates and
\* of every plate candidate in license_plates has x1 < x2, y1 < y2 and no
\* negative coordinate, whatever quadrilaterals readtext returned.
C11_Original ==
    /\ \A i \in 1..Len(vehicles) : WellFormedBbox(vehicles[i].bbox)
    /\ \A i \in 1..Len(license_plates) : WellFormedBbox(license_plates[i].bbox)

RECURSIVE PlatesYielded(_, _)
\* the candidates the triples of one vehicle yield, in order
PlatesYielded(v, triples) ==
    IF triples = <<>> THEN <<>>
    ELSE plates_of_triple(v, Head(triples)) \o PlatesYielded(v, Tail(triples))

RECURSIVE YieldedFrom(_)
\* the candidates of the vehicles at positions i.. whose iteration did not raise
YieldedFrom(i) ==
    IF i > Len(vehicles) THEN <<>>
    ELSE (IF i \in failed THEN <<>> ELSE PlatesYielded(vehicles[i], readtext[vehicles[i]]))
            \o YieldedFrom(i + 1)

RECURSIVE KeptFrom(_)
\* the elements of license_plates at positions i.. that belong to vehicles whose
\* iteration did not raise
KeptFrom(i) ==
    IF i > Len(license_plates) THEN <<>>
    ELSE (IF owners[i] \in failed THEN <<>> ELSE <<license_plates[i]>>) \o KeptFrom(i + 1)

\* C12: detect_license_plates never raises; when it returns it has begun the
\* iteration of every vehicle, in list order, and the result holds, in order,
\* every candidate yielded by the vehicles whose iteration did not raise.
C12_FailuresIsolated ==
    /\ ex_pc # "raised"
    /\ ex_pc = "returned" =>
          /\ visited = [i \in 1..Len(vehicles) |-> i]
          /\ KeptFrom(1) = YieldedFrom(1)

\* a vehicle raised, a later one did not and its candidate is in the result
C12_Witness ==
    /\ ex_pc = "returned"
    /\ \E i \in failed : \E j \in 1..Len(vehicles) :
          /\ i < j /\ j \notin failed
          /\ \E k \in 1..Len(owners) : owners[k] = j

\* C13 as stated: no element of license_plates belongs to a vehicle whose
\* iteration raised.
C13_Original ==
    \A k \in 1..Len(owners) : owners[k] \notin failed

(***************************************************************************)
(* process_image and the /process/ endpoint.                               *)
(*                                                                         *)
(*   SpecPipeline - one request: process_violation_image, process_image    *)
(*                  with detect_license_plates and detect_violations run   *)
(*                  step by step (the actions of SpecExtract and Spec),    *)
(*                  every capability free to raise, then the response and  *)
(*                  the background task that writes the cache              *)
(*   SpecAnalysis - process_image called twice on the same file, the       *)
(*                  capabilities being functions of their input            *)
(*                                                                         *)
(* A Python None or a value not yet assigned is <<>>, a value x is <<x>>.  *)
(* An exception is [type, message].                                        *)
(***************************************************************************)
MaxBoxes == 3

vehicle_classes ==
    {"car", "truck", "bus", "motorcycle", "bicycle", "auto-rickshaw", "van", "suv", "taxi"}

traffic_sign_classes ==
    {"stop sign", "traffic light", "speed limit", "no entry", "one way", "parking",
     "pedestrian crossing"}

\* the lists a detection is appended to
targets_overlapping(class_name) ==
    (IF class_name \in vehicle_classes \cup {"person"} THEN {"vehicles"} ELSE {})
        \cup (IF class_name = "person" THEN {"persons"} ELSE {})
        \cup (IF class_name \in traffic_sign_classes THEN {"traffic_signs"} ELSE {})

targets(class_name) ==
    IF class_name \in vehicle_classes THEN {"vehicles"}
    ELSE IF class_name = "person" THEN {"persons"}
    ELSE IF class_name \in traffic_sign_classes THEN {"traffic_signs"}
    ELSE {}

append_detection(list, name, detection) ==
    IF name \in targets(detection.class_name) THEN Append(list, detection) ELSE list

\* license_plates = [] and violations = []: a new list, whatever an earlier
\* call left behind
reuse_list(left_behind) == left_behind

new_list(left_behind) == <<>>

\* calculate_image_quality on an image with the given statistics of its grey
\* levels: laplacian_var, mean_gray = np.mean(gray) and std_gray = gray.std().
\* sharpness_score is kept in thousandths, brightness_score and contrast_score
\* in 255ths, the weights in hundredths.

\* min(laplacian_var / 1000, 1.0)
sharpness_score_uncapped(pixels) == pixels.laplacian_var

sharpness_score(pixels) == Min(pixels.laplacian_var, 1000)

\* 1.0 - abs(brightness - 0.5) * 2 with brightness = mean_gray / 255
brightness_score(pixels) ==
    LET centred == 2 * pixels.mean_gray - 255
    IN  255 - (IF centred < 0 THEN -centred ELSE centred)

\* min(contrast * 2, 1.0) with contrast = std_gray / 255
contrast_score(pixels) == Min(2 * pixels.std_gray, 255)

\* sharpness_score * 0.5 + brightness_score * 0.3 + contrast_score * 0.2
quality_weights == <<50, 30, 20>>

\* round(x, 2) in hundredths, x being n / 25500000
round_hundredths(n) == (2 * n + 255000) \div 510000

\* the weighted sum, over 25500000
weighted_sum(sharpness, brightness, contrast) ==
    quality_weights[1] * 255 * sharpness + quality_weights[2] * 1000 * brightness
        + quality_weights[3] * 1000 * contrast

\* round(quality_score, 2), in hundredths
calculate_image_quality(pixels) ==
    round_hundredths(weighted_sum(sharpness_score(pixels), brightness_score(pixels),
                                  contrast_score(pixels)))

AIAnalysisResult(plates, vs, ps, signs, found, quality, processing_time, timestamp) ==
    [license_plates |-> plates, vehicles |-> vs, persons |-> ps, traffic_signs |-> signs,
     violations_detected |-> found, image_quality_score |-> quality,
     processing_time |-> processing_time, timestamp |-> timestamp]

\* raise ValueError(f"Could not load image: {image_path}")
DecodeError == [type |-> "ValueError", message |-> "Could not load image"]

\* what yolo_model may raise: any Exception
DetectionErrors ==
    {[type |-> "RuntimeError", message |-> "inference failed"],
     [type |-> "ValueError", message |-> "inference failed"]}

\* raise HTTPException(status_code=400, detail="File must be an image")
NotAnImageError == [type |-> "HTTPException", message |-> "400: File must be an image"]

\* except Exception as e: raise HTTPException(status_code=500, detail=str(e))
handler_except(e) == [status_code |-> 500, detail |-> e.message]

\* return {"success": True, "result": asdict(result), "message": ...}
handler_return(res) ==
    [status_code |-> 200, success |-> TRUE, result |-> res,
     message |-> "Image processed successfully"]

\* if violation_id: a None and an empty string are falsy
truthy_not_none(violation_id) == violation_id # <<>>

truthy(violation_id) == violation_id # <<>> /\ violation_id[1] # <<>>

\* where control goes when cv2.imread returned None: the ValueError leaves
\* process_image
ignore_decode_failure == "quality"

on_decode_failure == "raised"

\* f"{violation_id}" inside an f-string
format_id(violation_id) ==
    IF violation_id = <<>> THEN <<"N", "o", "n", "e">> ELSE violation_id[1]

\* f"ai_result:{violation_id}"
cache_key_shared(violation_id) == <<"ai_result:">>

cache_key(violation_id) == <<"ai_result:">> \o violation_id

json_dumps(value) == [json |-> value]

json_loads(text) == text.json

\* SETEX key seconds value, executed at time t
setex(db, key, seconds, value, t) ==
    {e \in db : e.key # key} \cup {[key |-> key, value |-> value, expire_at |-> t + seconds]}

\* GET key, executed at time t: None once the key's time to live has elapsed
get(db, key, t) ==
    LET live == {e \in db : e.key = key /\ t < e.expire_at}
    IN  IF live = {} THEN <<>> ELSE <<(CHOOSE e \in live : TRUE).value>>

ResultTTL == 3600

\* store_ai_result's call of setex
store_ai_result(db, violation_id, res, t) ==
    setex(db, cache_key(violation_id), ResultTTL, json_dumps(res), t)

DOG == DetectionResult("dog", <<40, 300, 100, 380>>)
SS == DetectionResult("stop sign", <<10, 10, 40, 40>>)

RawCatalogue == {M1, V0, pA, TL, DOG}

Pixels(lv, m, s) ==
    [image |-> [height |-> 200, width |-> 200, helmetRows |-> 0],
     laplacian_var |-> lv, mean_gray |-> m, std_gray |-> s]

VehiclesOf(raw) == {d \in Range(raw) : d.class_name \in vehicle_classes}

ProcessImageLocalsIdle ==
    /\ image = [height |-> 200, width |-> 200, helmetRows |-> 0]
    /\ vehicles = <<>> /\ persons = <<>> /\ traffic_signs = <<>>
    /\ yolo_results = <<>> /\ b_idx = 0 /\ quality_score = <<>>
    /\ result = <<>> /\ error = <<>> /\ response = <<>> /\ background_tasks = <<>>
    /\ calls = <<>> /\ run = 1 /\ first_outcome = <<>>
    /\ ex_pc = "idle" /\ v_idx = 0 /\ ocr_results = <<>> /\ t_idx = 0
    /\ visited = <<>> /\ failed = {} /\ owners = <<>>
    /\ EngineIdle
    /\ DetectorsIdle /\ BackendIdle
    /\ PlatesIdle
    /\ CacheIdle
    /\ UploadIdle

PipelineUploads ==
    {[is_image |-> TRUE, violation_id |-> id, decoded |-> d] :
        id \in {<<>>, << <<>> >>, << <<"4", "2">> >>},
        d \in {<<>>, <<Pixels(400, 100, 50)>>}}
    \cup {[is_image |-> FALSE, violation_id |-> <<>>, decoded |-> <<>>]}

PipelineRaw == {<<>>, <<pA, DOG, SS>>, <<M1, pA, TL>>, <<VE, pA, V0>>}

PipelineOcrLists == {<<>>, <<tGood, tNeg>>}

InitPipeline ==
    /\ upload \in PipelineUploads
    /\ yolo_model \in PipelineRaw
    /\ readtext \in [VehiclesOf(yolo_model) -> PipelineOcrLists]
    /\ pi_pc = "request"
    /\ ProcessImageLocalsIdle

\* lines 513-514 and 539-541: the content type is not an image
RejectContentType ==
    /\ pi_pc = "request"
    /\ ~upload.is_image
    /\ response' = <<handler_except(NotAnImageError)>>
    /\ pi_pc' = "responded"
    /\ UNCHANGED <<backendVars, upload, yolo_model, yolo_results, b_idx, quality_score, result, error,
                   background_tasks, calls, run, first_outcome>>
    /\ UNCHANGED <<backendVars, sceneVars, engineVars, detectorVars, plateVars, extractVars, cacheVars,
                   uploadVars>>

\* lines 517-525: the upload is saved and process_image is called on the file
SaveUpload ==
    /\ pi_pc = "request"
    /\ upload.is_image
    /\ pi_pc' = "imread"
    /\ UNCHANGED <<backendVars, upload, yolo_model, yolo_results, b_idx, quality_score, result, error,
                   response, background_tasks, calls, run, first_outcome>>
    /\ UNCHANGED <<backendVars, sceneVars, engineVars, detectorVars, plateVars, extractVars, cacheVars,
                   uploadVars>>

\* lines 126-128: cv2.imread returns None
ImreadFails ==
    /\ pi_pc = "imread"
    /\ upload.decoded = <<>>
    /\ calls' = Append(calls, "imread")
    /\ error' = <<DecodeError>>
    /\ pi_pc' = on_decode_failure
    /\ UNCHANGED <<backendVars, upload, yolo_model, yolo_results, b_idx, quality_score, result,
                   response, background_tasks, run, first_outcome>>
    /\ UNCHANGED <<backendVars, sceneVars, engineVars, detectorVars, plateVars, extractVars, cacheVars,
                   uploadVars>>

\* line 126: cv2.imread returns the image
ImreadReturns ==
    /\ pi_pc = "imread"
    /\ upload.decoded # <<>>
    /\ calls' = Append(calls, "imread")
    /\ image' = upload.decoded[1].image
    /\ pi_pc' = "quality"
    /\ UNCHANGED <<backendVars, upload, yolo_model, yolo_results, b_idx, quality_score, result, error,
                   response, background_tasks, run, first_outcome>>
    /\ UNCHANGED <<backendVars, vehicles, persons, traffic_signs>>
    /\ UNCHANGED <<backendVars, engineVars, detectorVars, plateVars, extractVars, cacheVars, uploadVars>>

\* line 131
CalculateQuality ==
    /\ pi_pc = "quality"
    /\ upload.decoded # <<>>
    /\ calls' = Append(calls, "calculate_image_quality")
    /\ quality_score' = <<calculate_image_quality(upload.decoded[1])>>
    /\ pi_pc' = "yolo"
    /\ UNCHANGED <<backendVars, upload, yolo_model, yolo_results, b_idx, result, error,
                   response, background_tasks, run, first_outcome>>
    /\ UNCHANGED <<backendVars, sceneVars, engineVars, detectorVars, plateVars, extractVars, cacheVars,
                   uploadVars>>

\* line 134: yolo_model raises; lines 183-185 log and re-raise
YoloRaises ==
    /\ pi_pc = "yolo"
    /\ calls' = Append(calls, "yolo_model")
    /\ \E e \in DetectionErrors : error' = <<e>>
    /\ pi_pc' = "raised"
    /\ UNCHANGED <<backendVars, upload, yolo_model, yolo_results, b_idx, quality_score, result,
                   response, background_tasks, run, first_outcome>>
    /\ UNCHANGED <<backendVars, sceneVars, engineVars, detectorVars, plateVars, extractVars, cacheVars,
                   uploadVars>>

\* lines 134-139: yolo_model returns; the three lists start empty
YoloReturns ==
    /\ pi_pc = "yolo"
    /\ calls' = Append(calls, "yolo_model")
    /\ yolo_results' = yolo_model
    /\ vehicles' = <<>> /\ persons' = <<>> /\ traffic_signs' = <<>>
    /\ b_idx' = 1
    /\ pi_pc' = "partition"
    /\ UNCHANGED <<backendVars, upload, yolo_model, quality_score, result, error,
                   response, background_tasks, run, first_outcome>>
    /\ UNCHANGED <<backendVars, image, engineVars, detectorVars, plateVars, extractVars, cacheVars,
                   uploadVars>>

\* lines 141-157: one box of the loop
PartitionBox ==
    /\ pi_pc = "partition"
    /\ b_idx <= Len(yolo_results)
    /\ LET detection == yolo_results[b_idx]
       IN  /\ vehicles' = append_detection(vehicles, "vehicles", detection)
           /\ persons' = append_detection(persons, "persons", detection)
           /\ traffic_signs' = append_detection(traffic_signs, "traffic_signs", detection)
    /\ b_idx' = b_idx + 1
    /\ UNCHANGED <<backendVars, upload, yolo_model, pi_pc, yolo_results, quality_score, result, error,
                   response, background_tasks, calls, run, first_outcome>>
    /\ UNCHANGED <<backendVars, image, engineVars, detectorVars, plateVars, extractVars, cacheVars,
                   uploadVars>>

\* lines 160 and 189: detect_license_plates is entered
CallDetectLicensePlates ==
    /\ pi_pc = "partition"
    /\ b_idx > Len(yolo_results)
    /\ calls' = Append(calls, "detect_license_plates")
    /\ license_plates' = new_list(license_plates)
    /\ ex_pc' = "vehicle" /\ v_idx' = 1 /\ ocr_results' = <<>> /\ t_idx' = 0
    /\ visited' = <<>> /\ failed' = {} /\ owners' = <<>>
    /\ pi_pc' = "plates"
    /\ UNCHANGED <<backendVars, upload, yolo_model, yolo_results, b_idx, quality_score, result, error,
                   response, background_tasks, run, first_outcome>>
    /\ UNCHANGED <<backendVars, readtext, vehicle, ocr, canonical, lp_pc>>
    /\ UNCHANGED <<backendVars, sceneVars, engineVars, detectorVars, cacheVars, uploadVars>>

\* lines 163 and 308: detect_license_plates has returned, detect_violations is entered
CallDetectViolations ==
    /\ pi_pc = "plates"
    /\ ex_pc = "returned"
    /\ calls' = Append(calls, "detect_violations")
    /\ violations' = new_list(violations)
    /\ pc' = "loop" /\ idx' = 1 /\ invoked' = <<>> /\ raised' = {}
    /\ UNCHANGED <<backendVars, evaluated>>
    /\ pi_pc' = "violations"
    /\ UNCHANGED <<backendVars, upload, yolo_model, yolo_results, b_idx, quality_score, result, error,
                   response, background_tasks, run, first_outcome>>
    /\ UNCHANGED <<backendVars, sceneVars, detectorVars, plateVars, extractVars, cacheVars, uploadVars>>

\* lines 167-181: detect_violations has returned; the result is built and returned
AssembleResult ==
    /\ pi_pc = "violations"
    /\ pc = "returned"
    /\ \E elapsed \in 1..2 :
          /\ clock' = clock + elapsed
          /\ result' = <<AIAnalysisResult(license_plates, vehicles, persons, traffic_signs,
                                          violations, quality_score[1], elapsed,
                                          clock + elapsed)>>
    /\ pi_pc' = "returned"
    /\ UNCHANGED <<backendVars, upload, yolo_model, yolo_results, b_idx, quality_score, error,
                   response, background_tasks, calls, run, first_outcome>>
    /\ UNCHANGED <<backendVars, redis, store_log, got>>
    /\ UNCHANGED <<backendVars, sceneVars, engineVars, detectorVars, plateVars, extractVars, uploadVars>>

\* lines 528-537: the task is added when violation_id is truthy; the response
RespondSuccess ==
    /\ pi_pc = "returned"
    /\ background_tasks' =
          IF truthy(upload.violation_id)
          THEN Append(background_tasks,
                      [violation_id |-> upload.violation_id[1], result |-> result[1]])
          ELSE background_tasks
    /\ response' = <<handler_return(result[1])>>
    /\ pi_pc' = "responded"
    /\ UNCHANGED <<backendVars, upload, yolo_model, yolo_results, b_idx, quality_score, result, error,
                   calls, run, first_outcome>>
    /\ UNCHANGED <<backendVars, sceneVars, engineVars, detectorVars, plateVars, extractVars, cacheVars,
                   uploadVars>>

\* lines 539-541: process_image raised
RespondError ==
    /\ pi_pc = "raised"
    /\ response' = <<handler_except(error[1])>>
    /\ pi_pc' = "responded"
    /\ UNCHANGED <<backendVars, upload, yolo_model, yolo_results, b_idx, quality_score, result, error,
                   background_tasks, calls, run, first_outcome>>
    /\ UNCHANGED <<backendVars, sceneVars, engineVars, detectorVars, plateVars, extractVars, cacheVars,
                   uploadVars>>

\* lines 556-564: after the response, store_ai_result runs
RunBackgroundTask ==
    /\ pi_pc = "responded"
    /\ background_tasks # <<>>
    /\ LET task == Head(background_tasks)
       IN  /\ redis' = store_ai_result(redis, task.violation_id, task.result, clock)
           /\ store_log' = Append(store_log, [violation_id |-> task.violation_id,
                                              value |-> json_dumps(task.result),
                                              at |-> clock])
    /\ background_tasks' = Tail(background_tasks)
    /\ UNCHANGED <<backendVars, upload, yolo_model, pi_pc, yolo_results, b_idx, quality_score, result,
                   error, response, calls, run, first_outcome>>
    /\ UNCHANGED <<backendVars, clock, got>>
    /\ UNCHANGED <<backendVars, sceneVars, engineVars, detectorVars, plateVars, extractVars, uploadVars>>

ProcessImage ==
    \/ ImreadFails \/ ImreadReturns \/ CalculateQuality \/ YoloReturns \/ PartitionBox
    \/ CallDetectLicensePlates \/ EnhanceRaises \/ ReadtextReturns \/ LoopTriple
    \/ NextVehicle \/ ReturnLicensePlates \/ CallDetectViolations \/ DetectorReturns
    \/ ReturnViolations \/ AssembleResult

NextPipeline ==
    \/ RejectContentType \/ SaveUpload \/ ProcessImage
    \/ YoloRaises \/ ReadtextRaises \/ TripleRaises \/ DetectorRaises
    \/ RespondSuccess \/ RespondError \/ RunBackgroundTask

SpecPipeline == InitPipeline /\ [][NextPipeline]_vars

(***************************************************************************)
(* SpecAnalysis: process_image called on a file and then called again on   *)
(* the same file by the same AIProcessor.  cv2.imread, yolo_model and      *)
(* readtext are functions of their input and do not raise.  The second     *)
(* call starts with everything the first one left behind.                  *)
(***************************************************************************)
AnalysisRaw == SeqsUpTo(RawCatalogue \cup {VE}, MaxBoxes)

InitAnalysis ==
    /\ upload \in {[is_image |-> TRUE, violation_id |-> <<>>, decoded |-> d] :
                      d \in {<<>>, <<Pixels(400, 100, 50)>>}}
    /\ yolo_model \in AnalysisRaw
    /\ upload.decoded = <<>> => yolo_model = <<>>
    /\ readtext \in [VehiclesOf(yolo_model) -> PipelineOcrLists]
    /\ pi_pc = "imread"
    /\ ProcessImageLocalsIdle

\* process_image has returned or raised and is called again
SecondCall ==
    /\ run = 1
    /\ pi_pc \in {"returned", "raised"}
    /\ first_outcome' = <<[result |-> result, error |-> error]>>
    /\ run' = 2
    /\ pi_pc' = "imread"
    /\ result' = <<>> /\ error' = <<>> /\ calls' = <<>>
    /\ UNCHANGED <<backendVars, upload, yolo_model, yolo_results, b_idx, quality_score, response,
                   background_tasks>>
    /\ UNCHANGED <<backendVars, sceneVars, engineVars, detectorVars, plateVars, extractVars, cacheVars,
                   uploadVars>>

NextAnalysis == ProcessImage \/ SecondCall

SpecAnalysis == InitAnalysis /\ [][NextAnalysis]_vars

(***************************************************************************)
(* Claims about process_image and the /process/ endpoint.                  *)
(***************************************************************************)
\* the boxes the loop of lines 141-157 has handled
SeenBoxes == SubSeq(yolo_results, 1, b_idx - 1)

KeepsOrderOf(list, raw) == list = SelectSeq(raw, LAMBDA d : d \in Range(list))

C15_DecodeFailureIsFatal ==
    (upload.is_image /\ upload.decoded = <<>>) =>
        /\ calls \in {<<>>, <<"imread">>}
        /\ calls = <<"imread">> =>
              pi_pc \in {"raised", "responded"} /\ error = <<DecodeError>>
        /\ yolo_results = <<>> /\ visited = <<>> /\ invoked = <<>>
        /\ result = <<>>
        /\ background_tasks = <<>> /\ redis = {} /\ store_log = <<>>
        /\ response # <<>> =>
              /\ response[1].status_code # handler_return(<<>>).status_code
              /\ response[1].detail = DecodeError.message

C15_Witness ==
    /\ upload.is_image /\ upload.decoded = <<>> /\ truthy(upload.violation_id)
    /\ pi_pc = "responded" /\ response # <<>>

\* yolo_model was called and raised
DetectionFailed == calls = <<"imread", "calculate_image_quality", "yolo_model">> /\ error # <<>>

\* C16 as stated: when yolo_model raises, process_image raises and the endpoint
\* fails, and the failure is of another kind than a decode failure: the
\* exception is of another type than the decode error, or the endpoint answers
\* with another status than it does for the decode error.
C16_Original ==
    DetectionFailed =>
        /\ pi_pc \in {"raised", "responded"} /\ result = <<>>
        /\ response # <<>> =>
              \/ error[1].type # DecodeError.type
              \/ response[1].status_code # handler_except(DecodeError).status_code

RECURSIVE IsSubsequence(_, _)
IsSubsequence(a, b) ==
    IF a = <<>> THEN TRUE
    ELSE IF b = <<>> THEN FALSE
    ELSE IF Head(a) = Head(b) THEN IsSubsequence(Tail(a), Tail(b))
    ELSE IsSubsequence(a, Tail(b))

RECURSIVE FullYield(_)
\* the candidates of the vehicles at positions i.. when nothing raises but
\* enhance_for_ocr on an empty crop
FullYield(i) ==
    IF i > Len(vehicles) THEN <<>>
    ELSE (IF enhance_for_ocr_raises(vehicle_region(image, vehicles[i])) THEN <<>>
          ELSE PlatesYielded(vehicles[i], readtext[vehicles[i]]))
            \o FullYield(i + 1)

\* the violations when no detector raises
AllDetected ==
    SelectSeq(violation_patterns,
              LAMBDA k : detector(k, image, vehicles, persons, traffic_signs))

\* C17: once cv2.imread and yolo_model have returned, neither process_image nor
\* detect_license_plates nor detect_violations raises, whichever vehicles and
\* detectors fail; the result that is returned holds a subsequence of the
\* plates of a run without failures and its violations less those of the
\* detectors that raised.
C17_ReturnsDespiteFailures ==
    ("yolo_model" \in Range(calls) /\ error = <<>>) =>
        /\ pi_pc # "raised" /\ ex_pc # "raised" /\ pc # "raised"
        /\ pi_pc \in {"returned", "responded"} =>
              /\ result # <<>>
              /\ IsSubsequence(result[1].license_plates, FullYield(1))
              /\ result[1].violations_detected =
                    SelectSeq(AllDetected, LAMBDA k : k \notin raised)
        /\ response # <<>> => response[1] = handler_return(result[1])

\* a vehicle and a detector failed, and the result still has a plate
C17_Witness ==
    /\ pi_pc = "responded" /\ result # <<>>
    /\ failed # {} /\ raised # {}
    /\ result[1].license_plates # <<>>
    /\ Len(result[1].license_plates) < Len(FullYield(1))
    /\ Len(result[1].violations_detected) < Len(AllDetected)

SecondCallEnded == run = 2 /\ pi_pc \in {"returned", "raised"}

\* C18: the second call of process_image on the same file ends as the first
\* one did: the same exception, or a result with the same vehicles, persons,
\* signs, plates, violations and quality score.
C18_SameResultTwice ==
    SecondCallEnded =>
        /\ error = first_outcome[1].error
        /\ (result = <<>>) = (first_outcome[1].result = <<>>)
        /\ result # <<>> =>
              LET r1 == first_outcome[1].result[1]
                  r2 == result[1]
              IN  /\ r2.vehicles = r1.vehicles
                  /\ r2.persons = r1.persons
                  /\ r2.traffic_signs = r1.traffic_signs
                  /\ r2.license_plates = r1.license_plates
                  /\ r2.violations_detected = r1.violations_detected
                  /\ r2.image_quality_score = r1.image_quality_score

\* both calls returned plates and violations; processing_time and timestamp differ
C18_Witness ==
    /\ SecondCallEnded /\ result # <<>>
    /\ result[1].license_plates # <<>> /\ result[1].violations_detected # <<>>
    /\ result[1].processing_time # first_outcome[1].result[1].processing_time
    /\ result[1].timestamp # first_outcome[1].result[1].timestamp

(***************************************************************************)
(* SpecUpload: two /process/ requests served by the one event loop.  A     *)
(* request runs from its start to `await file.read()` without giving up    *)
(* control: the content type check, the path and open(file_path, "wb"),    *)
(* which creates or truncates the file.  When it is resumed it writes its  *)
(* content through its own descriptor, at offset 0, closes the file and    *)
(* runs process_image, which has no suspension point before cv2.imread     *)
(* reads the file back.                                                    *)
(***************************************************************************)
\* MEDIA_DIR / f"{violation_id}_{file.filename}"
file_path(violation_id, filename) == format_id(violation_id) \o <<"_">> \o filename

bytes_at(fs, path) == (CHOOSE f \in fs : f.path = path).bytes

\* open(path, "wb")
open_wb(fs, path) == {f \in fs : f.path # path} \cup {[path |-> path, bytes |-> <<>>]}

\* buffer.write(content) and the close: the bytes go to offset 0 of the file as
\* it is now, and what lies beyond them stays
write_and_close(fs, path, content) ==
    LET old == bytes_at(fs, path)
    IN  {f \in fs : f.path # path}
            \cup {[path |-> path,
                   bytes |-> content \o SubSeq(old, Len(content) + 1, Len(old))]}

UploadIds == {<<>>, << <<"a">> >>, << <<"a", "_", "b">> >>}

UploadFilenames == {<<"c">>, <<"b", "_", "c">>}

UploadContents == {<<1, 2, 3>>, <<4, 5>>}

UploadRequests ==
    {[violation_id |-> id, filename |-> name, content |-> bytes, at |-> "start",
      analysed |-> <<>>] :
        id \in UploadIds, name \in UploadFilenames, bytes \in UploadContents}

InitUpload ==
    /\ reqs \in [1..2 -> UploadRequests]
    /\ disk = {}
    /\ SceneIdle
    /\ EngineIdle
    /\ DetectorsIdle /\ BackendIdle
    /\ PlatesIdle
    /\ ExtractIdle
    /\ PipelineIdle
    /\ CacheIdle

\* lines 511-521: up to `await file.read()`
OpenFile ==
    \E r \in DOMAIN reqs :
        /\ reqs[r].at = "start"
        /\ disk' = open_wb(disk, file_path(reqs[r].violation_id, reqs[r].filename))
        /\ reqs' = [reqs EXCEPT ![r].at = "reading"]
        /\ UNCHANGED <<backendVars, sceneVars, engineVars, detectorVars, plateVars, extractVars, pipeVars,
                       cacheVars>>

\* lines 521-525 and 126: the content is written and cv2.imread reads the file
WriteAndProcess ==
    \E r \in DOMAIN reqs :
        /\ reqs[r].at = "reading"
        /\ LET path == file_path(reqs[r].violation_id, reqs[r].filename)
               written == write_and_close(disk, path, reqs[r].content)
           IN  /\ disk' = written
               /\ reqs' = [reqs EXCEPT ![r].at = "done",
                                       ![r].analysed = bytes_at(written, path)]
        /\ UNCHANGED <<backendVars, sceneVars, engineVars, detectorVars, plateVars, extractVars, pipeVars,
                       cacheVars>>

NextUpload == OpenFile \/ WriteAndProcess

SpecUpload == InitUpload /\ [][NextUpload]_vars

\* C19 as stated: every request is analysed on exactly the bytes it uploaded,
\* whatever the other request's correlation id and filename are and however the
\* two are interleaved.
C19_Original ==
    \A r \in DOMAIN reqs : reqs[r].at = "done" => reqs[r].analysed = reqs[r].content

(***************************************************************************)
(* SpecCache: store_ai_result and get_ai_result on the Redis cache, with   *)
(* time passing in between.  A key set by SETEX lives for the given number *)
(* of seconds from the moment of the call.                                 *)
(***************************************************************************)
MaxStores == 2
MaxClock == 7300

\* get_ai_result: the HTTPException(404) raised in the try block is caught by
\* its except Exception and re-raised as a 500
get_ai_result(db, violation_id, t) ==
    LET cached == get(db, cache_key(violation_id), t)
    IN  IF cached # <<>>
        THEN [status_code |-> 200, success |-> TRUE, result |-> json_loads(cached[1])]
        ELSE [status_code |-> 500, detail |-> "404: Result not found"]

CacheIds == {<<"4">>, <<"4", "2">>}

CacheResults ==
    {[violations_detected |-> <<>>], [violations_detected |-> <<"helmet_violation">>]}

InitCache ==
    /\ redis = {} /\ clock = 0 /\ store_log = <<>> /\ got = <<>>
    /\ SceneIdle
    /\ EngineIdle
    /\ DetectorsIdle /\ BackendIdle
    /\ PlatesIdle
    /\ ExtractIdle
    /\ PipelineIdle
    /\ UploadIdle

\* store_ai_result(violation_id, result) runs
StoreResult ==
    /\ Len(store_log) < MaxStores
    /\ \E id \in CacheIds, res \in CacheResults :
          /\ redis' = store_ai_result(redis, id, res, clock)
          /\ store_log' = Append(store_log, [violation_id |-> id, value |-> json_dumps(res),
                                             at |-> clock])
    /\ UNCHANGED <<backendVars, clock, got>>
    /\ UNCHANGED <<backendVars, sceneVars, engineVars, detectorVars, plateVars, extractVars, pipeVars,
                   uploadVars>>

\* time passes
AdvanceClock ==
    /\ \E seconds \in {ResultTTL - 1, ResultTTL, ResultTTL + 1} :
          /\ clock + seconds <= MaxClock
          /\ clock' = clock + seconds
    /\ UNCHANGED <<backendVars, redis, store_log, got>>
    /\ UNCHANGED <<backendVars, sceneVars, engineVars, detectorVars, plateVars, extractVars, pipeVars,
                   uploadVars>>

\* GET /result/{violation_id}
GetResult ==
    /\ \E id \in CacheIds :
          got' = <<[violation_id |-> id, at |-> clock, after |-> Len(store_log),
                    cached |-> get(redis, cache_key(id), clock),
                    response |-> get_ai_result(redis, id, clock)]>>
    /\ UNCHANGED <<backendVars, redis, clock, store_log>>
    /\ UNCHANGED <<backendVars, sceneVars, engineVars, detectorVars, plateVars, extractVars, pipeVars,
                   uploadVars>>

NextCache == StoreResult \/ AdvanceClock \/ GetResult

SpecCache == InitCache /\ [][NextCache]_vars

\* the stores among the first n under one correlation id
StoresOf(violation_id, n) ==
    SelectSeq(SubSeq(store_log, 1, n), LAMBDA s : s.violation_id = violation_id)

\* what a get at time t must find after the first n stores: the value of the
\* last store under the id, unless ResultTTL seconds have passed since
Expected(violation_id, n, t) ==
    LET stores == StoresOf(violation_id, n)
    IN  IF stores = <<>> THEN <<>>
        ELSE LET last == stores[Len(stores)]
             IN  IF t - last.at >= ResultTTL THEN <<>> ELSE <<last.value>>

\* C20: a get under a correlation id finds the value of the last store executed
\* under that id, and nothing once 3600 seconds have passed since that store;
\* stores under another id make no difference.
C20_LastWriteWins ==
    got # <<>> =>
        /\ got[1].cached = Expected(got[1].violation_id, got[1].after, got[1].at)
        /\ got[1].cached # <<>> =>
              got[1].response.result = json_loads(got[1].cached[1])

\* two stores under one id, the first one expired by now, then a get that
\* finds the second one's value
C20_Witness ==
    /\ got # <<>> /\ got[1].after = 2
    /\ store_log[1].violation_id = store_log[2].violation_id
    /\ store_log[1].value # store_log[2].value
    /\ store_log[2].at > store_log[1].at
    /\ got[1].violation_id = store_log[2].violation_id
    /\ got[1].cached = <<store_log[2].value>>
    /\ got[1].at - store_log[1].at >= ResultTTL

(***************************************************************************)
(* Claims about the cache write of a /process/ request, under SpecPipeline. *)
(***************************************************************************)
\* the request carries a correlation id that is not the empty string
SuppliedId == upload.violation_id # <<>> /\ upload.violation_id[1] # <<>>

\* C21: a cache write is scheduled or executed only for a request with a
\* correlation id whose analysis returned a result; the entry written has the
\* key 'ai_result:<id>', the serialized result that is returned to the caller
\* as its value and expires 3600 seconds after the write.  Without an id, or
\* when the analysis raised, nothing is scheduled and nothing is written.
C21_CacheWriteOnlyOnSuccess ==
    /\ (background_tasks # <<>> \/ redis # {} \/ store_log # <<>>) =>
          /\ SuppliedId
          /\ error = <<>> /\ result # <<>>
          /\ response = <<handler_return(result[1])>>
    /\ Len(background_tasks) + Len(store_log) <= 1
    /\ \A task \in Range(background_tasks) :
          task.violation_id = upload.violation_id[1] /\ task.result = result[1]
    /\ redis # {} =>
          /\ Len(store_log) = 1
          /\ redis = {[key |-> <<"ai_result:">> \o upload.violation_id[1],
                       value |-> [json |-> response[1].result],
                       expire_at |-> store_log[1].at + 3600]}
    /\ store_log # <<>> => redis # {}
    /\ (~SuppliedId \/ error # <<>>) =>
          background_tasks = <<>> /\ redis = {} /\ store_log = <<>>

\* the write has been executed for a request with an id
C21_Witness ==
    /\ SuppliedId /\ pi_pc = "responded"
    /\ redis # {} /\ background_tasks = <<>>
    /\ response[1].result.license_plates # <<>>

(***************************************************************************)
(* SpecQuality: cv2.imread and calculate_image_quality on decoded images.  *)
(* The statistics are those an image can have: a standard deviation s of   *)
(* grey levels with mean m satisfies s * s <= m * (255 - m), and a solid   *)
(* colour image has standard deviation 0 and Laplacian variance 0.         *)
(***************************************************************************)
QualityImages ==
    {Pixels(lv, m, s) :
        lv \in {0, 1, 400, 999, 1000, 1001, 250000},
        m \in {0, 1, 64, 100, 127, 128, 200, 254, 255},
        s \in {0, 1, 50, 100, 127}}

ValidImage(pixels) ==
    /\ pixels.std_gray * pixels.std_gray <= pixels.mean_gray * (255 - pixels.mean_gray)
    /\ pixels.std_gray = 0 => pixels.laplacian_var = 0

InitQuality ==
    /\ upload \in {[is_image |-> TRUE, violation_id |-> <<>>, decoded |-> <<p>>] :
                      p \in {q \in QualityImages : ValidImage(q)}}
    /\ yolo_model = <<>>
    /\ readtext = <<>>
    /\ pi_pc = "imread"
    /\ ProcessImageLocalsIdle

NextQuality == ImreadReturns \/ CalculateQuality

SpecQuality == InitQuality /\ [][NextQuality]_vars

SolidColour(pixels) == pixels.std_gray = 0 /\ pixels.laplacian_var = 0

SubScoresInRange(pixels) ==
    /\ sharpness_score(pixels) \in 0..1000
    /\ brightness_score(pixels) \in 0..255
    /\ contrast_score(pixels) \in 0..255

\* C22 as stated: the score returned is in [0,1], the three sub-scores are in
\* [0,1], the weights sum to 1, and for a solid-colour image the score returned
\* is exactly 0.3 times the brightness sub-score.
C22_Original ==
    quality_score # <<>> =>
        LET pixels == upload.decoded[1]
        IN  /\ quality_score[1] \in 0..100
            /\ SubScoresInRange(pixels)
            /\ quality_weights[1] + quality_weights[2] + quality_weights[3] = 100
            /\ SolidColour(pixels) =>
                  quality_score[1] * 255 = 30 * brightness_score(pixels)

\* C22: the score returned is in [0,1], the three sub-scores are in [0,1], the
\* weights sum to 1, and for a solid-colour image the sharpness and contrast
\* sub-scores are 0 and the score returned is 0.3 times the brightness
\* sub-score rounded to two decimals.
C22_QualityInUnitRange ==
    quality_score # <<>> =>
        LET pixels == upload.decoded[1]
        IN  /\ quality_score[1] \in 0..100
            /\ SubScoresInRange(pixels)
            /\ quality_weights[1] + quality_weights[2] + quality_weights[3] = 100
            /\ SolidColour(pixels) =>
                  /\ sharpness_score(pixels) = 0 /\ contrast_score(pixels) = 0
                  /\ 2 * (100 * 30 * brightness_score(pixels)) + 25500
                        >= 51000 * quality_score[1]
                  /\ 2 * (100 * 30 * brightness_score(pixels)) + 25500
                        < 51000 * (quality_score[1] + 1)

\* a solid grey image of level 100: brightness sub-score 200/255, score 0.24
C22_Witness ==
    /\ quality_score = <<24>>
    /\ SolidColour(upload.decoded[1]) /\ upload.decoded[1].mean_gray = 100

(***************************************************************************)
(* SpecAnyOrder: the eight detectors of the registry evaluated on a scene  *)
(* one at a time in an arbitrary order, each result merged as the loop of  *)
(* detect_violations merges it.                                            *)
(***************************************************************************)
InitAnyOrder ==
    /\ image \in EngineImages
    /\ vehicles \in EngineVehicleLists
    /\ persons \in EnginePersonLists
    /\ traffic_signs \in {<<>>, <<TL>>}
    /\ pc = "any_order" /\ idx = 0 /\ violations = <<>> /\ invoked = <<>> /\ raised = {}
    /\ evaluated = {}
    /\ DetectorsIdle /\ BackendIdle
    /\ PlatesIdle
    /\ ExtractIdle
    /\ ServiceIdle

\* lines 312-313 for a detector that has not been evaluated yet
EvaluateAnyDetector ==
    /\ pc = "any_order"
    /\ \E violation_type \in Range(violation_patterns) \ evaluated :
          /\ evaluated' = evaluated \cup {violation_type}
          /\ violations' = append_if_detected(violations, violation_label(violation_type),
                               detector(violation_type, image, vehicles, persons,
                                        traffic_signs))
    /\ UNCHANGED <<backendVars, pc, idx, invoked, raised>>
    /\ UNCHANGED <<backendVars, sceneVars, detectorVars, plateVars, extractVars, serviceVars>>

NextAnyOrder == EvaluateAnyDetector

SpecAnyOrder == InitAnyOrder /\ [][NextAnyOrder]_vars

\* what detect_violations returns for the scene, evaluating in registry order
InRegistryOrder ==
    SelectSeq(violation_patterns,
              LAMBDA k : detector(k, image, vehicles, persons, traffic_signs))

\* C23: in whatever order the detectors are evaluated, the violations merged so
\* far are exactly the evaluated kinds whose detector holds on the scene, and
\* once all eight are evaluated they are, as a set, what the registry order
\* gives.
C23_OrderIndependent ==
    /\ Range(violations) =
          {k \in evaluated : detector(k, image, vehicles, persons, traffic_signs)}
    /\ evaluated = Range(violation_patterns) =>
          Range(violations) = Range(InRegistryOrder)

\* all evaluated, two violations found, merged in the order opposite to the
\* registry's
C23_Witness ==
    /\ evaluated = Range(violation_patterns)
    /\ Len(violations) = 2
    /\ violations # InRegistryOrder

\* C24 as stated: a request whose content type is not an image is answered with
\* the status 400 and the detail 'File must be an image' that the handler
\* raised, and nothing of it is analysed or written; the status 500 is kept
\* for requests whose analysis raised.
C24_Original ==
    response # <<>> =>
        /\ ~upload.is_image =>
              /\ response[1].status_code = 400
              /\ response[1].detail = "File must be an image"
              /\ calls = <<>> /\ result = <<>> /\ redis = {}
        /\ response[1].status_code = 500 => error # <<>>

(***************************************************************************)
(* Further claims about the plate texts, checked under SpecPlates.         *)
(***************************************************************************)
\* C25 as stated: the text of an emitted PlateCandidate whose cleaned text has
\* 10 or more characters is 2 letters, 2 digits, 2 letters and 4 digits.
C25_Original ==
    (Emitted /\ Len(CleanedText(ocr.text)) >= 10) =>
        Shape(license_plates[1].text, 2, 2, 2, 4)

\* C26: for a text that is_license_plate_text accepts, the cleaned text c is a
\* fixed point of clean_license_plate_text, is accepted by
\* is_license_plate_text and has 6 to 10 characters.
C26_CleanIdempotentAndClosed ==
    (canonical # <<>> /\ is_license_plate_text(ocr.text)) =>
        LET c == canonical[1]
        IN  /\ clean_license_plate_text(c) = c
            /\ is_license_plate_text(c)
            /\ Len(c) \in 6..10

\* an accepted text of 12 characters with separators, cut to 10 by the cleaning
C26_Witness ==
    /\ canonical # <<>> /\ is_license_plate_text(ocr.text)
    /\ Len(CleanedText(ocr.text)) = 12 /\ Len(ocr.text) > 12
    /\ Len(canonical[1]) = 10

(***************************************************************************)
(* A further claim about detect_violations, checked under Spec.            *)
(***************************************************************************)
NoMotorcycle == \A i \in 1..Len(vehicles) : vehicles[i].class_name # "motorcycle"

\* C27: on a scene without a motorcycle among the vehicles, or without persons,
\* detect_violations has no violation in its list at any point and returns none.
C27_NoRiderNoViolation ==
    (pc \in {"loop", "returned"} /\ (NoMotorcycle \/ persons = <<>>)) => violations = <<>>

\* returned, no detector raised: a car with persons, and a motorcycle without
C27_Witness ==
    /\ pc = "returned" /\ raised = {}
    /\ \/ vehicles # <<>> /\ NoMotorcycle /\ Len(persons) >= 3
       \/ ~NoMotorcycle /\ persons = <<>>
    /\ traffic_signs # <<>>

(***************************************************************************)
(* The models of the web backend (src/backend/apps).                       *)
(*                                                                         *)
(* Units.  An amount is a whole number of rupees.  A row of the database   *)
(* holds plain numbers: a DecimalField is stored as a decimal.  A number   *)
(* held by an instance in memory is [kind, n]: kind "Decimal" is what a    *)
(* DecimalField holds after a load from the database, kind "float" what it *)
(* holds on an instance built in the process from a float (the field       *)
(* defaults 0.00, the literals of create_violations.py).  Python adds and  *)
(* multiplies neither a Decimal with a float nor a float with a Decimal:   *)
(* it raises TypeError; it does compare them.                              *)
(*                                                                         *)
(* An instance is a copy of its row made when it was loaded; save() writes *)
(* every field of the instance to the row.                                 *)
(***************************************************************************)
MaxViolationObjects == 2
MaxChallanObjects == 1

Decimal(n) == [kind |-> "Decimal", n |-> n]
Float(n) == [kind |-> "float", n |-> n]
TypeError == [type |-> "TypeError"]

\* fine_amount of the violation types of create_violations.py
FineAmounts == {500, 1000}

\* x * 0.4 with x a field value: <<the product>>, <<>> for TypeError.  The
\* amounts of FineAmounts make the float product exact.
times_two_fifths(x) ==
    IF x.kind = "Decimal" THEN <<>> ELSE <<Float((x.n * 4) \div 10)>>

\* Violation.objects.get / the related-object access challan.violation
get_violation(d) ==
    [status |-> d.violation.status,
     reward_amount |-> Decimal(d.violation.reward_amount),
     reward_paid |-> d.violation.reward_paid,
     reporter |-> <<>>,
     fine_amount |-> Decimal(d.violation_type.fine_amount)]

\* the related-object access violation.reporter
get_user(d) == [wallet_balance |-> Decimal(d.reporter.wallet_balance)]

\* Violation.save(): the row written from the instance
save_violation(self) ==
    [status |-> self.status, reward_amount |-> self.reward_amount.n,
     reward_paid |-> self.reward_paid]

\* CustomUser.add_to_wallet: [self, row, transactions, raised]
add_to_wallet(self, amount, description, row, transactions) ==
    IF self.wallet_balance.kind # amount.kind
    THEN [self |-> self, row |-> row, transactions |-> transactions,
          raised |-> <<TypeError>>]
    ELSE LET credited ==
                 [self EXCEPT !.wallet_balance.n = self.wallet_balance.n + amount.n]
         IN  [self |-> credited,
              row |-> [row EXCEPT !.wallet_balance = credited.wallet_balance.n],
              transactions |->
                  Append(transactions,
                         [amount |-> amount.n, transaction_type |-> "credit",
                          description |-> description,
                          balance_after |-> credited.wallet_balance.n]),
              raised |-> <<>>]

\* Violation.approve: [self, violation (the row), raised]
approve(self, d) ==
    LET reviewed == [self EXCEPT !.status = "approved"]
        reward == times_two_fifths(self.fine_amount)
    IN  IF reward = <<>>
        THEN [self |-> reviewed, violation |-> d.violation, raised |-> <<TypeError>>]
        ELSE LET approved == [reviewed EXCEPT !.reward_amount = reward[1]]
             IN  [self |-> approved, violation |-> save_violation(approved),
                  raised |-> <<>>]

\* the condition of line 144
reward_due(self) == ~self.reward_paid /\ self.reward_amount.n > 0

\* Violation.mark_payment_received: [self, database, transactions, raised]
mark_payment_received(self, d, transactions) ==
    LET received == [self EXCEPT !.status = "payment_received"]
    IN  IF reward_due(received)
        THEN LET reporter == IF received.reporter = <<>> THEN get_user(d)
                             ELSE received.reporter[1]
                 paid == add_to_wallet(reporter, received.reward_amount,
                                       "Reward for violation", d.reporter, transactions)
                 loaded == [received EXCEPT !.reporter = <<paid.self>>]
             IN  IF paid.raised # <<>>
                 THEN [self |-> loaded, database |-> d, transactions |-> transactions,
                       raised |-> paid.raised]
                 ELSE LET rewarded == [loaded EXCEPT !.reward_paid = TRUE]
                      IN  [self |-> rewarded,
                           database |-> [d EXCEPT !.reporter = paid.row,
                                                  !.violation = save_violation(rewarded)],
                           transactions |-> paid.transactions,
                           raised |-> <<>>]
        ELSE [self |-> received,
              database |-> [d EXCEPT !.violation = save_violation(received)],
              transactions |-> transactions, raised |-> <<>>]

\* Challan.mark_paid: [self, database, transactions, raised]
mark_paid(self, d, transactions) ==
    LET saved == [d EXCEPT !.challan.status = "paid"]
        violation == IF self.violation = <<>> THEN get_violation(saved)
                     ELSE self.violation[1]
        received == mark_payment_received(violation, saved, transactions)
    IN  [self |-> [self EXCEPT !.status = "paid", !.violation = <<received.self>>],
         database |-> received.database,
         transactions |-> received.transactions,
         raised |-> received.raised]

\* One violation of a violation type, its reporter and its challan are in the
\* database.  Instance 1 is the Violation that was built when the report was
\* made: its reward_amount is the default 0.00, its reporter the fetched user,
\* its violation_type an object fetched from the database (Decimal) or
\* returned by its creation (float).  The other instances are not loaded yet.
InitReward ==
    /\ \E fine \in FineAmounts, kind \in {"Decimal", "float"} :
        /\ database = [violation |-> [status |-> "pending", reward_amount |-> 0,
                                      reward_paid |-> FALSE],
                       reporter |-> [wallet_balance |-> 0],
                       challan |-> [status |-> "pending"],
                       violation_type |-> [fine_amount |-> fine]]
        /\ violation_objs =
              [i \in 1..MaxViolationObjects |->
                  IF i = 1
                  THEN <<[status |-> "pending", reward_amount |-> Float(0),
                          reward_paid |-> FALSE,
                          reporter |-> <<[wallet_balance |-> Decimal(0)]>>,
                          fine_amount |-> [kind |-> kind, n |-> fine]]>>
                  ELSE <<>>]
    /\ challan_objs = [c \in 1..MaxChallanObjects |->
                          [status |-> "pending", violation |-> <<>>]]
    /\ approve_called = FALSE
    /\ wallet_transactions = <<>> /\ user = <<>>
    /\ OtpIdle /\ returned = <<>>
    /\ SceneIdle /\ EngineIdle /\ DetectorsIdle /\ PlatesIdle /\ ExtractIdle /\ ServiceIdle

aiVars == <<sceneVars, engineVars, detectorVars, plateVars, extractVars, serviceVars>>

\* a request fetches the violation
GetViolation(i) ==
    /\ violation_objs[i] = <<>>
    /\ violation_objs' = [violation_objs EXCEPT ![i] = <<get_violation(database)>>]
    /\ UNCHANGED <<database, challan_objs, approve_called, walletVars, otpVars, returned,
                   aiVars>>

Approve(i) ==
    /\ violation_objs[i] # <<>>
    /\ LET r == approve(violation_objs[i][1], database)
       IN  /\ violation_objs' = [violation_objs EXCEPT ![i] = <<r.self>>]
           /\ database' = [database EXCEPT !.violation = r.violation]
           /\ returned' = <<[call |-> "approve", raised |-> r.raised]>>
    /\ approve_called' = TRUE
    /\ UNCHANGED <<challan_objs, walletVars, otpVars, aiVars>>

MarkPaymentReceived(i) ==
    /\ violation_objs[i] # <<>>
    /\ LET r == mark_payment_received(violation_objs[i][1], database, wallet_transactions)
       IN  /\ violation_objs' = [violation_objs EXCEPT ![i] = <<r.self>>]
           /\ database' = r.database
           /\ wallet_transactions' = r.transactions
           /\ returned' = <<[call |-> "mark_payment_received", raised |-> r.raised]>>
    /\ UNCHANGED <<challan_objs, approve_called, user, otpVars, aiVars>>

MarkPaid(c) ==
    /\ LET r == mark_paid(challan_objs[c], database, wallet_transactions)
       IN  /\ challan_objs' = [challan_objs EXCEPT ![c] = r.self]
           /\ database' = r.database
           /\ wallet_transactions' = r.transactions
           /\ returned' = <<[call |-> "mark_paid", raised |-> r.raised]>>
    /\ UNCHANGED <<violation_objs, approve_called, user, otpVars, aiVars>>

NextReward ==
    \/ \E i \in 1..MaxViolationObjects : GetViolation(i)
    \/ \E i \in 1..MaxViolationObjects : Approve(i)
    \/ \E i \in 1..MaxViolationObjects : MarkPaymentReceived(i)
    \/ \E c \in 1..MaxChallanObjects : MarkPaid(c)

SpecReward == InitReward /\ [][NextReward]_vars

Credits == {k \in 1..Len(wallet_transactions) :
               wallet_transactions[k].transaction_type = "credit"}

\* C28 as stated: whatever calls of approve, mark_payment_received and
\* mark_paid were made on the instances of the violation, the reporter has at
\* most one credit WalletTransaction, and none unless approve was called.
C28_Original ==
    /\ Cardinality(Credits) <= 1
    /\ Credits # {} => approve_called

(***************************************************************************)
(* SpecWallet: add_to_wallet and deduct_from_wallet called in any order on *)
(* one CustomUser instance fetched from the database, with Decimal amounts *)
(* from 0 to MaxAmount.                                                     *)
(***************************************************************************)
MaxAmount == 3
MaxTransactions == 3

can_deduct_always(balance, amount) == TRUE

\* the condition of line 106
can_deduct(balance, amount) == balance.n >= amount.n

\* CustomUser.deduct_from_wallet: [self, row, transactions, value, raised]
deduct_from_wallet(self, amount, description, row, transactions) ==
    IF can_deduct(self.wallet_balance, amount)
    THEN IF self.wallet_balance.kind # amount.kind
         THEN [self |-> self, row |-> row, transactions |-> transactions,
               value |-> <<>>, raised |-> <<TypeError>>]
         ELSE LET debited ==
                      [self EXCEPT !.wallet_balance.n = self.wallet_balance.n - amount.n]
              IN  [self |-> debited,
                   row |-> [row EXCEPT !.wallet_balance = debited.wallet_balance.n],
                   transactions |->
                       Append(transactions,
                              [amount |-> amount.n, transaction_type |-> "debit",
                               description |-> description,
                               balance_after |-> debited.wallet_balance.n]),
                   value |-> <<TRUE>>, raised |-> <<>>]
    ELSE [self |-> self, row |-> row, transactions |-> transactions,
          value |-> <<FALSE>>, raised |-> <<>>]

WalletAmounts == {Decimal(n) : n \in 0..MaxAmount}

\* a user with the default wallet_balance and no transaction, fetched
InitWallet ==
    /\ database = [reporter |-> [wallet_balance |-> 0]]
    /\ user = <<get_user(database)>>
    /\ wallet_transactions = <<>>
    /\ returned = <<>>
    /\ violation_objs = <<>> /\ challan_objs = <<>> /\ approve_called = FALSE
    /\ OtpIdle
    /\ SceneIdle /\ EngineIdle /\ DetectorsIdle /\ PlatesIdle /\ ExtractIdle /\ ServiceIdle

\* what a call found and how it ended
call_record(name, amount, r) ==
    [call |-> name, amount |-> amount.n,
     balance_before |-> user[1].wallet_balance.n,
     transactions_before |-> wallet_transactions,
     value |-> r.value, raised |-> r.raised]

AddToWallet(amount) ==
    /\ Len(wallet_transactions) < MaxTransactions
    /\ LET r == add_to_wallet(user[1], amount, "", database.reporter, wallet_transactions)
       IN  /\ user' = <<r.self>>
           /\ database' = [database EXCEPT !.reporter = r.row]
           /\ wallet_transactions' = r.transactions
           /\ returned' = <<call_record("add_to_wallet", amount,
                                        [value |-> <<>>, raised |-> r.raised])>>
    /\ UNCHANGED <<violation_objs, challan_objs, approve_called, otpVars, aiVars>>

DeductFromWallet(amount) ==
    /\ Len(wallet_transactions) < MaxTransactions
    /\ LET r == deduct_from_wallet(user[1], amount, "", database.reporter,
                                   wallet_transactions)
       IN  /\ user' = <<r.self>>
           /\ database' = [database EXCEPT !.reporter = r.row]
           /\ wallet_transactions' = r.transactions
           /\ returned' = <<call_record("deduct_from_wallet", amount, r)>>
    /\ UNCHANGED <<violation_objs, challan_objs, approve_called, otpVars, aiVars>>

NextWallet ==
    \/ \E amount \in WalletAmounts : AddToWallet(amount)
    \/ \E amount \in WalletAmounts : DeductFromWallet(amount)

SpecWallet == InitWallet /\ [][NextWallet]_vars

RECURSIVE Recorded(_, _)
\* the sum of the amounts of the transactions of one type
Recorded(transactions, type) ==
    IF transactions = <<>> THEN 0
    ELSE (IF Head(transactions).transaction_type = type THEN Head(transactions).amount
          ELSE 0) + Recorded(Tail(transactions), type)

MaxNow == 20
TickMinutes == 5
OtpLifetime == 10
DefaultMaxAttempts == 3

\* two of the codes random.choices can produce
OtpCodes == {"135790", "246801"}

\* OTPVerification.is_expired at time t
is_expired(self, t) == t > self.expires_at

attempts_exhausted_above(self) == self.attempts > self.max_attempts

\* the condition of line 158
attempts_exhausted(self) == self.attempts >= self.max_attempts

\* OTPVerification.verify at time t: [self, value, message]
verify(self, otp_code, t) ==
    IF is_expired(self, t)
    THEN [self |-> self, value |-> FALSE, message |-> "OTP has expired"]
    ELSE IF attempts_exhausted(self)
    THEN [self |-> self, value |-> FALSE, message |-> "Maximum attempts exceeded"]
    ELSE LET counted == [self EXCEPT !.attempts = self.attempts + 1]
         IN  IF counted.otp_code = otp_code
             THEN [self |-> [counted EXCEPT !.is_verified = TRUE,
                                            !.verified_at = <<t>>],
                   value |-> TRUE, message |-> "OTP verified successfully"]
             ELSE [self |-> counted, value |-> FALSE, message |-> "Invalid OTP"]

\* the record OTPRequestView.post creates at time t
new_otp(otp_code, t, max_attempts) ==
    [otp_code |-> otp_code, is_verified |-> FALSE, attempts |-> 0,
     max_attempts |-> max_attempts, expires_at |-> t + OtpLifetime,
     verified_at |-> <<>>]

InitOtp ==
    /\ now = 0
    /\ \E otp_code \in OtpCodes, max_attempts \in 1..DefaultMaxAttempts :
          otp = <<new_otp(otp_code, now, max_attempts)>>
    /\ returned = <<>>
    /\ RewardIdle /\ WalletIdle
    /\ SceneIdle /\ EngineIdle /\ DetectorsIdle /\ PlatesIdle /\ ExtractIdle /\ ServiceIdle

Verify(otp_code) ==
    /\ LET r == verify(otp[1], otp_code, now)
       IN  /\ otp' = <<r.self>>
           /\ returned' = <<[call |-> "verify", otp_code |-> otp_code, at |-> now,
                             before |-> otp[1], value |-> r.value,
                             message |-> r.message]>>
    /\ UNCHANGED <<now, rewardVars, walletVars, aiVars>>

\* OTPRequestView.post for the phone number and purpose of the record: the
\* lookup is for is_verified=False, so a verified record is left alone (the
\* request then creates another record)
RequestOtp(otp_code) ==
    /\ otp' = IF otp[1].is_verified THEN otp
              ELSE <<[otp[1] EXCEPT !.otp_code = otp_code,
                                    !.expires_at = now + OtpLifetime,
                                    !.attempts = 0]>>
    /\ returned' = <<[call |-> "post", otp_code |-> otp_code, at |-> now,
                      before |-> otp[1], value |-> TRUE, message |-> "OTP sent successfully"]>>
    /\ UNCHANGED <<now, rewardVars, walletVars, aiVars>>

Tick ==
    /\ now + TickMinutes <= MaxNow
    /\ now' = now + TickMinutes
    /\ UNCHANGED <<otp, returned, rewardVars, walletVars, aiVars>>

NextOtp ==
    \/ \E otp_code \in OtpCodes : Verify(otp_code)
    \/ \E otp_code \in OtpCodes : RequestOtp(otp_code)
    \/ Tick

SpecOtp == InitOtp /\ [][NextOtp]_vars

\* C30: attempts never exceeds max_attempts.  A verify on an expired record,
\* or on one whose attempts reached max_attempts, returns False with its
\* message and leaves the record as it was, whatever the code.  A record
\* becomes verified only by a verify with its code, made before expiry and
\* with attempts below max_attempts.
C30_AttemptsBounded ==
    otp # <<>> =>
        /\ otp[1].attempts <= otp[1].max_attempts
        /\ (returned # <<>> /\ returned[1].call = "verify") =>
              LET r == returned[1]
                  b == r.before
              IN  /\ r.at > b.expires_at =>
                        /\ r.value = FALSE /\ r.message = "OTP has expired"
                        /\ otp[1] = b
                  /\ (r.at <= b.expires_at /\ b.attempts >= b.max_attempts) =>
                        /\ r.value = FALSE /\ r.message = "Maximum attempts exceeded"
                        /\ otp[1] = b
                  /\ (otp[1].is_verified /\ ~b.is_verified) =>
                        /\ r.otp_code = b.otp_code
                        /\ r.at <= b.expires_at
                        /\ b.attempts < b.max_attempts
        /\ otp[1].is_verified =>
              /\ otp[1].verified_at # <<>>
              /\ otp[1].verified_at[1] <= otp[1].expires_at
              /\ otp[1].attempts >= 1

\* the right code refused on an unexpired record whose attempts are used up
C30_Witness ==
    /\ otp # <<>> /\ returned # <<>> /\ returned[1].call = "verify"
    /\ returned[1].otp_code = returned[1].before.otp_code
    /\ returned[1].at <= returned[1].before.expires_at
    /\ returned[1].before.attempts = DefaultMaxAttempts
    /\ returned[1].message = "Maximum attempts exceeded"
    /\ ~otp[1].is_verified

====
